---- MODULE Spec2Model ----
(***************************************************************************)
(* A model of the uniswap-v3 event indexer: the protobuf wire codec        *)
(* (Decoder / Encoder / Sizer and the generated message classes of         *)
(* src/proto/uniswap.proto) and the block handler with its event handlers  *)
(* (src/src/mappings/fast.ts, the mappings of src/proto/uniswap.proto and  *)
(* src/unnamed/part_000).                                                  *)
(*                                                                         *)
(* Machine integers keep their width.  A u64 is the tuple of its ten       *)
(* base-128 digits, least significant first (what the bytes of its varint  *)
(* carry); where an operation works on bits it is a tuple of 64 bits,      *)
(* least significant first (bit i at index i+1), and an i32 / u32 one of   *)
(* 32 bits.  An i32 used in arithmetic (the decoder's cursor, a length) is *)
(* a TLA+ integer in -2^31..2^31-1 and is added with wrap-around.          *)
(***************************************************************************)
EXTENDS Integers, Sequences, FiniteSets, TLC

VARIABLES
    probe,      \* codec: the input a codec operation is applied to
    outcome,    \* codec: what the operation produced ("none" before it ran)
    store,      \* the entities saved, by type and id
    store0,     \* the store when the running handleBlock was called
    pc,         \* "idle", "dispatch" (inside forEach) or "failed" (handleBlock threw)
    events,     \* the events Events.decode returned for the block
    idx,        \* the position of forEach in events
    calls,      \* the handlers called for the block: <<handler, position>>
    failure,    \* what ended handleBlock: "none", "decode" or "abort"
    chain,      \* the blocks of the history not yet delivered
    free        \* the block after the history is still to come

engineVars == <<store, store0, pc, events, idx, calls, failure, chain, free>>
vars == <<probe, outcome, store, store0, pc, events, idx, calls, failure, chain, free>>

----------------------------------------------------------------------------
(* Machine integers *)

Bit(n, j) == (n \div (2 ^ j)) % 2

Max(a, b) == IF a >= b THEN a ELSE b

Min(a, b) == IF a <= b THEN a ELSE b

Xor(a, b) == (a + b) % 2

\* a | b on naturals
RECURSIVE Or(_, _)
Or(a, b) ==
    IF a = 0 THEN b
    ELSE IF b = 0 THEN a
    ELSE Max(a % 2, b % 2) + 2 * Or(a \div 2, b \div 2)

\* the natural number held by the w bits of v from bit lo on (w <= 31)
RECURSIVE BitsVal(_, _, _)
BitsVal(v, lo, w) == IF w = 0 THEN 0 ELSE v[lo + 1] + 2 * BitsVal(v, lo + 1, w - 1)

\* the 64 bits of the u64 with the digits d, and the digits of 64 bits: digit
\* g holds the bits 7(g-1) .. 7g-1, the tenth digit bit 63 alone
Bits(d) == [i \in 1..64 |-> Bit(d[((i - 1) \div 7) + 1], (i - 1) % 7)]

Digits(v) == [g \in 1..10 |-> BitsVal(v, 7 * (g - 1), IF g = 10 THEN 1 ELSE 7)]

U64Zero == [g \in 1..10 |-> 0]

\* u64(n) for a natural n < 2^31
U64OfNat(n) == [g \in 1..10 |-> IF g <= 5 THEN (n \div (128 ^ (g - 1))) % 128 ELSE 0]

\* u64(x) of an i32: i64.extend_i32_s
U64OfI32(x) ==
    IF x >= 0 THEN U64OfNat(x)
    ELSE [g \in 1..10 |->
            CASE g <= 4 -> (((x + 1073741824) + 1073741824) \div (128 ^ (g - 1))) % 128
              [] g = 5 -> (((x + 1073741824) + 1073741824) \div 268435456) + 120
              [] g = 10 -> 1
              [] OTHER -> 127]

\* i32(x) / u32(x) of a u64, the low 32 bits, as the signed integer
I32Of(d) ==
    (d[1] + 128 * d[2] + 16384 * d[3] + 2097152 * d[4] + 268435456 * (d[5] % 8))
    - ((d[5] \div 8) % 2) * 1073741824 - ((d[5] \div 8) % 2) * 1073741824

\* u32(x) / i32(x) of 64 bits: the low 32 bits
Trunc32(v) == [i \in 1..32 |-> v[i]]

\* i64.extend_i32_s on bits
SignExtend(w) == [i \in 1..64 |-> IF i <= 32 THEN w[i] ELSE w[32]]

\* A machine word as it is written in a state: its bytes, most significant
\* first (8 for a u64, 4 for an i32 / u32).  Word and Unword go between the
\* bytes and the bits, WordOfI32 and I32OfWord between the 4 bytes and the
\* signed integer.
Word(v) == [k \in 1..(Len(v) \div 8) |-> BitsVal(v, Len(v) - 8 * k, 8)]

Unword(w) == [i \in 1..(8 * Len(w)) |-> Bit(w[Len(w) - ((i - 1) \div 8)], (i - 1) % 8)]

WordOfI32(x) ==
    <<((IF x < 0 THEN (x + 1073741824) + 1073741824 ELSE x) \div 16777216)
        + (IF x < 0 THEN 128 ELSE 0),
      ((IF x < 0 THEN (x + 1073741824) + 1073741824 ELSE x) \div 65536) % 256,
      ((IF x < 0 THEN (x + 1073741824) + 1073741824 ELSE x) \div 256) % 256,
      (IF x < 0 THEN (x + 1073741824) + 1073741824 ELSE x) % 256>>

I32OfWord(w) ==
    ((w[1] % 128) * 16777216 + w[2] * 65536 + w[3] * 256 + w[4])
    - (w[1] \div 128) * 1073741824 - (w[1] \div 128) * 1073741824

\* u64(x) of the u32 with the bytes w: i64.extend_i32_u
U64OfU32(w) ==
    [U64OfNat((w[1] % 128) * 16777216 + w[2] * 65536 + w[3] * 256 + w[4])
        EXCEPT ![5] = @ + 8 * (w[1] \div 128)]

\* i32 addition with wrap-around (a, b in -2^31..2^31-1)
AddI32(a, b) ==
    IF a >= 0 /\ b >= 0
    THEN LET t == (a - 1073741824 - 1073741824) + b
         IN  IF t >= 0 THEN t - 1073741824 - 1073741824 ELSE a + b
    ELSE IF a < 0 /\ b < 0
    THEN LET t == (a + 1073741824 + 1073741824) + b
         IN  IF t < 0 THEN t + 1073741824 + 1073741824 ELSE a + b
    ELSE a + b

----------------------------------------------------------------------------
(* __proto.Decoder *)

\* a DataView: a window of len bytes at offset off of the buffer buf
DataView(buf, off, len) == [buf |-> buf, off |-> off, len |-> len]

ViewOf(bytes) == DataView(bytes, 0, Len(bytes))

\* What a read returns: st = "ok" with the new cursor and the value read,
\* "error" when it threw, "hang" when its loop was cut off (see Fuel).
Ok(pos, val) == [st |-> "ok", pos |-> pos, val |-> val]

Fail(pos) == [st |-> "error", pos |-> pos, val |-> <<>>]

Hang(pos) == [st |-> "hang", pos |-> pos, val |-> <<>>]

\* DataView.getUint8 accepts byteOffset iff 0 <= byteOffset < byteLength
InView(view, pos) == pos >= 0 /\ pos < view.len

u8at(view, pos) == view.buf[view.off + pos + 1]

\* the shift applied to the low 7 bits of the k-th byte of a varint
VarintShift == <<0, 7, 14, 21, 28, 35, 42, 49, 28, 35>>

\* value | ((u64(b) & 127) << s), for a shift s that is a multiple of 7: the
\* seven bits go into the digit s/7 + 1 (the tenth has room for one)
OrShl(value, b, s) ==
    [value EXCEPT ![(s \div 7) + 1] = Or(@, IF s = 63 THEN b % 2 ELSE b % 128)]

RECURSIVE varintFrom(_, _, _, _)
varintFrom(view, pos, k, value) ==
    IF ~InView(view, pos) THEN Fail(pos)
    ELSE LET b == u8at(view, pos)
             v == OrShl(value, b, VarintShift[k])
         IN  IF b < 128 THEN Ok(pos + 1, v)
             ELSE IF k = 10 THEN (IF pos + 1 > view.len THEN Fail(pos + 1) ELSE Ok(pos + 1, v))
             ELSE varintFrom(view, pos + 1, k + 1, v)

varint(view, pos) == varintFrom(view, pos, 1, U64Zero)

\* (n >>> 1) ^ -(n & 1) on the 64 bits of n
UnZigZag(n) == [i \in 1..64 |-> Xor(IF i < 64 THEN n[i + 1] ELSE 0, n[1])]

\* the low width bits of v
Low(v, width) == [i \in 1..width |-> v[i]]

\* Both return the bits of the decoded word in r.val (32 resp. 64 bits).
UnZigZagOf(n, width) ==
    IF n.st = "ok" THEN Ok(n.pos, Low(UnZigZag(Bits(n.val)), width)) ELSE n

Decoder_sint32(view, pos) == UnZigZagOf(varint(view, pos), 32)

Decoder_sint64(view, pos) == UnZigZagOf(varint(view, pos), 64)

\* ArrayBuffer.slice(begin, end), as Decoder.string calls it
Slice(buf, begin, end) ==
    LET n == Len(buf)
        b == IF begin < 0 THEN Max(n + begin, 0) ELSE Min(begin, n)
        e == IF end < 0 THEN Max(n + end, 0) ELSE Min(end, n)
    IN  SubSeq(buf, b + 1, e)

\* String.UTF8.decode: the UTF-16 code units of a byte sequence.  A sequence
\* that ends inside a character drops that character.
RECURSIVE UTF8Decode(_)
UTF8Decode(b) ==
    IF b = <<>> THEN <<>>
    ELSE IF b[1] < 128 THEN <<b[1]>> \o UTF8Decode(Tail(b))
    ELSE IF Len(b) = 1 THEN <<>>
    ELSE IF (b[1] \div 32) = 6
    THEN <<(b[1] % 32) * 64 + (b[2] % 64)>> \o UTF8Decode(SubSeq(b, 3, Len(b)))
    ELSE IF Len(b) = 2 THEN <<>>
    ELSE IF (b[1] \div 16) = 14
    THEN <<(b[1] % 16) * 4096 + (b[2] % 64) * 64 + (b[3] % 64)>>
         \o UTF8Decode(SubSeq(b, 4, Len(b)))
    ELSE IF Len(b) = 3 THEN <<>>
    ELSE LET cp == (b[1] % 8) * 262144 + (b[2] % 64) * 4096 + (b[3] % 64) * 64 + (b[4] % 64)
         IN  (IF cp < 65536 THEN <<cp>>
              ELSE <<55296 + ((cp - 65536) \div 1024), 56320 + ((cp - 65536) % 1024)>>)
             \o UTF8Decode(SubSeq(b, 5, Len(b)))

\* r with its value replaced, when the read r succeeded
Then(r, value) == IF r.st = "ok" THEN Ok(r.pos, value) ELSE r

\* the u32 a length prefix is read into, as the i32 the cursor is added to
AsI32(n) == IF n.st = "ok" THEN Ok(n.pos, I32Of(n.val)) ELSE n

Decoder_uint32(view, pos) == AsI32(varint(view, pos))

\* Decoder.string() after its length l was read: the bounds check, the
\* slice decoded, the cursor moved
StringOf(view, l) ==
    IF l.st # "ok" THEN l
    ELSE IF AddI32(l.pos, l.val) > view.len THEN Fail(l.pos)
    ELSE Ok(AddI32(l.pos, l.val),
            UTF8Decode(Slice(view.buf, l.pos + view.off, AddI32(l.pos + view.off, l.val))))

Decoder_string(view, pos) == StringOf(view, Decoder_uint32(view, pos))

\* Decoder.bytes() after its length l was read; new Array<u8>(len) throws
\* for a len of 2^30 or more (negative i32 included)
BytesOf(view, l) ==
    IF l.st # "ok" THEN l
    ELSE IF AddI32(l.pos, l.val) > view.len THEN Fail(l.pos)
    ELSE IF l.val < 0 \/ l.val >= 1073741824 THEN Fail(l.pos)
    ELSE Ok(l.pos + l.val, SubSeq(view.buf, view.off + l.pos + 1, view.off + l.pos + l.val))

Decoder_bytes(view, pos) == BytesOf(view, Decoder_uint32(view, pos))

\* a skip that checks the bound and leaves the cursor where it was
Decoder_skip_unmoved(view, pos, length) ==
    IF AddI32(pos, length) > view.len THEN Fail(pos)
    ELSE Ok(pos, <<>>)

Decoder_skip(view, pos, length) ==
    IF AddI32(pos, length) > view.len THEN Fail(pos)
    ELSE Ok(AddI32(pos, length), <<>>)

\* skip(this.uint32()) once the length l was read
SkipOf(view, l) == IF l.st = "ok" THEN Decoder_skip(view, l.pos, l.val) ELSE l

\* The decode loops stop when the cursor reaches the end of the view.  A read
\* may move the cursor backwards, so a loop is cut off after Fuel iterations
\* (more than twice the bytes of the buffer) and reported as "hang".
Fuel(view) == 2 * Len(view.buf) + 2

\* tag & 7
WireType(tag) == tag[1] % 8

RECURSIVE skipType(_, _, _, _)

\* the loop of case 3 goes on after the field r of the group was skipped
SkipNext(view, r, fuel) == IF r.st = "ok" THEN skipType(view, r.pos, 3, fuel - 1) ELSE r

\* the loop of case 3 once the tag t of a field of the group was read
SkipGroup(view, t, fuel) ==
    IF t.st # "ok" THEN t
    ELSE IF fuel = 0 THEN Hang(t.pos)
    ELSE IF WireType(t.val) = 4 THEN Ok(t.pos, <<>>)
    ELSE SkipNext(view, skipType(view, t.pos, WireType(t.val), fuel - 1), fuel)

\* Decoder.skipType(wireType) at the cursor pos
skipType(view, pos, wireType, fuel) ==
    CASE wireType = 0 -> Then(varint(view, pos), <<>>)
      [] wireType = 1 -> Decoder_skip(view, pos, 8)
      [] wireType = 2 -> SkipOf(view, Decoder_uint32(view, pos))
      [] wireType = 3 -> SkipGroup(view, varint(view, pos), fuel)
      [] wireType = 5 -> Decoder_skip(view, pos, 4)
      [] OTHER -> Fail(pos)

----------------------------------------------------------------------------
(* __proto.Encoder and __proto.Sizer *)

\* value < 2^(7k): no digit above the k-th
Below(v, k) == \A g \in (k + 1)..10 : v[g] = 0

\* v >> 7
Shr7(v) == [g \in 1..10 |-> IF g < 10 THEN v[g + 1] ELSE 0]

RECURSIVE varint64(_)
varint64(v) ==
    IF ~Below(v, 1) THEN <<v[1] + 128>> \o varint64(Shr7(v))
    ELSE <<v[1]>>

\* (value << 1) ^ (value >> width-1) on the bits of a word of any width
ZigZag(w) == [i \in 1..Len(w) |-> Xor(IF i = 1 THEN 0 ELSE w[i - 1], w[Len(w)])]

\* Encoder.sint32 hands an i32 to varint64(value: u64): sign extension
Encoder_sint32(w) == varint64(Digits(SignExtend(ZigZag(w))))

Encoder_sint64(v) == varint64(Digits(ZigZag(v)))

\* String.UTF8.encode: the bytes of a string of UTF-16 code units (no
\* surrogates)
RECURSIVE UTF8Encode(_)
UTF8Encode(s) ==
    IF s = <<>> THEN <<>>
    ELSE (IF s[1] < 128 THEN <<s[1]>>
          ELSE IF s[1] < 2048 THEN <<192 + (s[1] \div 64), 128 + (s[1] % 64)>>
          ELSE <<224 + (s[1] \div 4096), 128 + ((s[1] \div 64) % 64), 128 + (s[1] % 64)>>)
         \o UTF8Encode(Tail(s))

\* a Sizer.varint64 without the tenth byte
Sizer_varint64_nine(v) ==
    IF Below(v, 1) THEN 1
    ELSE IF Below(v, 2) THEN 2
    ELSE IF Below(v, 3) THEN 3
    ELSE IF Below(v, 4) THEN 4
    ELSE IF Below(v, 5) THEN 5
    ELSE IF Below(v, 6) THEN 6
    ELSE IF Below(v, 7) THEN 7
    ELSE IF Below(v, 8) THEN 8
    ELSE 9

Sizer_varint64(v) ==
    IF Below(v, 1) THEN 1
    ELSE IF Below(v, 2) THEN 2
    ELSE IF Below(v, 3) THEN 3
    ELSE IF Below(v, 4) THEN 4
    ELSE IF Below(v, 5) THEN 5
    ELSE IF Below(v, 6) THEN 6
    ELSE IF Below(v, 7) THEN 7
    ELSE IF Below(v, 8) THEN 8
    ELSE IF Below(v, 9) THEN 9
    ELSE 10

----------------------------------------------------------------------------
(* The generated message classes.  A message is the tuple of its fields in  *)
(* field-number order (the numbers of every class are 1..n); a string is a  *)
(* tuple of UTF-16 code units, a bytes field a tuple of bytes, an i32 / u32 *)
(* field a Word of 4 bytes, Event.event an Any, Events.events a tuple of    *)
(* Events.                                                                 *)

Fields(type) ==
    CASE type = "Any" -> <<"string", "bytes">>
      [] type = "Events" -> <<"Event*">>
      [] type = "Event" -> <<"string", "uint32", "Any", "string", "bytes", "string",
                             "bytes", "int32", "string">>
      [] type = "PoolCreated" -> <<"string", "string", "string", "string", "string">>
      [] type \in {"IncreaseLiquidity", "DecreaseLiquidity", "Collect"} ->
            <<"string", "string", "string", "string">>
      [] type = "Transfer" -> <<"string", "string", "string">>
      [] type = "Initialize" -> <<"string", "string">>
      [] type \in {"Swap", "Mint"} -> <<"string", "string", "string", "string", "string",
                                        "string", "string", "int32", "string">>
      [] type = "Burn" -> <<"string", "string", "string", "string", "string", "string",
                            "int32", "string">>
      [] type = "Flash" -> <<"string", "string", "string", "string", "string", "string">>

MessageTypes ==
    {"Any", "Events", "Event", "PoolCreated", "IncreaseLiquidity", "DecreaseLiquidity",
     "Collect", "Transfer", "Initialize", "Swap", "Mint", "Burn", "Flash"}

\* new T(): every field at its default value
Default(type) ==
    [k \in 1..Len(Fields(type)) |->
        CASE Fields(type)[k] \in {"uint32", "int32"} -> <<0, 0, 0, 0>>
          [] Fields(type)[k] = "Any" -> <<<<>>, <<>>>>
          [] OTHER -> <<>>]

\* u32(tag) >>> 3
FieldNumber(tag) ==
    (tag[1] \div 8) + 16 * tag[2] + 2048 * tag[3] + 262144 * tag[4]
    + 33554432 * (tag[5] % 16)

\* the kind of the field that the switch of T.decodeDataView reads for a
\* field number, "unknown" for its default case
KindOf(type, number) ==
    IF number \in 1..Len(Fields(type)) THEN Fields(type)[number] ELSE "unknown"

\* obj with the value read by r in the field, when the read r succeeded
PutField(obj, number, r) ==
    IF r.st = "ok" THEN Ok(r.pos, [obj EXCEPT ![number] = r.val]) ELSE r

\* obj.events.push(value read by r)
PushField(obj, number, r) ==
    IF r.st = "ok" THEN Ok(r.pos, [obj EXCEPT ![number] = Append(@, r.val)]) ELSE r

\* the 32 low bits of the varint read by r
AsWord(r) == IF r.st = "ok" THEN Ok(r.pos, WordOfI32(I32Of(r.val))) ELSE r

RECURSIVE decodeLoop(_, _, _, _, _)

\* decoder.skip(length) after the nested message d was decoded
SkipNested(view, l, d) ==
    IF d.st # "ok" THEN [d EXCEPT !.pos = l.pos]
    ELSE Then(Decoder_skip(view, l.pos, l.val), d.val)

\* A nested message once its length l was read: new DataView(buffer, pos +
\* byteOffset, length), which throws unless the window lies within the whole
\* buffer, the decodeDataView of its class, and skip(length).
Nested(sub, view, l, fuel) ==
    IF l.st # "ok" THEN l
    ELSE IF l.val < 0 \/ l.val > Len(view.buf) - (l.pos + view.off) THEN Fail(l.pos)
    ELSE SkipNested(view, l,
                    decodeLoop(sub, DataView(view.buf, l.pos + view.off, l.val), 0,
                               Default(sub), fuel))

\* the case of the switch for the field whose tag t was read; r.val is the
\* message with the field in it
ReadField(type, view, t, obj, fuel) ==
    IF t.st # "ok" THEN t
    ELSE CASE KindOf(type, FieldNumber(t.val)) = "string" ->
                PutField(obj, FieldNumber(t.val), Decoder_string(view, t.pos))
           [] KindOf(type, FieldNumber(t.val)) = "bytes" ->
                PutField(obj, FieldNumber(t.val), Decoder_bytes(view, t.pos))
           [] KindOf(type, FieldNumber(t.val)) \in {"uint32", "int32"} ->
                PutField(obj, FieldNumber(t.val), AsWord(varint(view, t.pos)))
           [] KindOf(type, FieldNumber(t.val)) = "Any" ->
                PutField(obj, FieldNumber(t.val),
                         Nested("Any", view, Decoder_uint32(view, t.pos), fuel))
           [] KindOf(type, FieldNumber(t.val)) = "Event*" ->
                PushField(obj, FieldNumber(t.val),
                          Nested("Event", view, Decoder_uint32(view, t.pos), fuel))
           [] OTHER ->
                Then(skipType(view, t.pos, WireType(t.val), fuel), obj)

\* while (!decoder.eof()) after the field read by r
NextField(type, view, r, fuel) ==
    IF r.st = "ok" THEN decodeLoop(type, view, r.pos, r.val, fuel - 1) ELSE r

\* T.decodeDataView(view) from the cursor pos, with the fields read so far
\* in obj
decodeLoop(type, view, pos, obj, fuel) ==
    IF pos >= view.len THEN Ok(pos, obj)
    ELSE IF fuel = 0 THEN Hang(pos)
    ELSE NextField(type, view, ReadField(type, view, varint(view, pos), obj, fuel), fuel)

\* T.decode(buf) / T.decodeDataView(new DataView(buf))
decode(type, buf) == decodeLoop(type, ViewOf(buf), 0, Default(type), Fuel(ViewOf(buf)))

RECURSIVE SumSeq(_)
SumSeq(q) == IF q = <<>> THEN 0 ELSE Head(q) + SumSeq(Tail(q))

RECURSIVE Flatten(_)
Flatten(q) == IF q = <<>> THEN <<>> ELSE Head(q) \o Flatten(Tail(q))

\* T.size(): the size of each field in turn
RECURSIVE FieldSizes(_, _)
FieldSizes(type, m) ==
    [k \in 1..Len(Fields(type)) |->
        LET kind == Fields(type)[k]
            Delimited(n) == IF n > 0 THEN 1 + Sizer_varint64(U64OfNat(n)) + n ELSE 0
        IN  CASE kind \in {"string", "bytes"} -> Delimited(Len(m[k]))
              [] kind = "uint32" ->
                    IF m[k] = <<0, 0, 0, 0>> THEN 0
                    ELSE 1 + Sizer_varint64(U64OfU32(m[k]))
              [] kind = "int32" ->
                    IF m[k] = <<0, 0, 0, 0>> THEN 0
                    ELSE 1 + Sizer_varint64(U64OfI32(I32OfWord(m[k])))
              [] kind = "Any" -> Delimited(SumSeq(FieldSizes("Any", m[k])))
              [] kind = "Event*" ->
                    SumSeq([n \in 1..Len(m[k]) |->
                               Delimited(SumSeq(FieldSizes("Event", m[k][n])))])]

size(type, m) == SumSeq(FieldSizes(type, m))

\* T.encodeU8Array(): the chunks (tag, length prefix, payload) each field
\* appends to the buffer: none for a field at its default value, one per
\* element for the repeated field
RECURSIVE FieldChunks(_, _)
FieldChunks(type, m) ==
    [k \in 1..Len(Fields(type)) |->
        LET kind == Fields(type)[k]
            tag == 8 * k + (IF kind \in {"uint32", "int32"} THEN 0 ELSE 2)
            Message(sub, f) ==
                IF size(sub, f) > 0
                THEN <<<<tag>> \o varint64(U64OfNat(size(sub, f)))
                             \o Flatten(Flatten(FieldChunks(sub, f)))>>
                ELSE <<>>
        IN  CASE kind = "string" ->
                    IF Len(m[k]) > 0
                    THEN <<<<tag>> \o varint64(U64OfNat(Len(m[k]))) \o UTF8Encode(m[k])>>
                    ELSE <<>>
              [] kind = "bytes" ->
                    IF Len(m[k]) > 0
                    THEN <<<<tag>> \o varint64(U64OfNat(Len(m[k]))) \o m[k]>>
                    ELSE <<>>
              [] kind = "uint32" ->
                    IF m[k] # <<0, 0, 0, 0>>
                    THEN <<<<tag>> \o varint64(U64OfU32(m[k]))>>
                    ELSE <<>>
              [] kind = "int32" ->
                    IF m[k] # <<0, 0, 0, 0>>
                    THEN <<<<tag>> \o varint64(U64OfI32(I32OfWord(m[k])))>>
                    ELSE <<>>
              [] kind = "Any" -> Message("Any", m[k])
              [] kind = "Event*" ->
                    Flatten([n \in 1..Len(m[k]) |-> Message("Event", m[k][n])])]

\* the chunks of a message, in the order written
Chunks(type, m) == Flatten(FieldChunks(type, m))

encodeU8Array(type, m) == Flatten(Chunks(type, m))

----------------------------------------------------------------------------
(* Inputs of the codec operations *)

\* the longest string drawn for a string field
MaxStr == 2

\* the bits of 2^k and 2^k - 1 as u64, k in 0..64 (2^64 wraps to 0)
U64Pow(k) == [i \in 1..64 |-> IF i - 1 = k THEN 1 ELSE 0]

U64Ones(k) == [i \in 1..64 |-> IF i - 1 < k THEN 1 ELSE 0]

\* the bits of -(2^k) as i64
U64Neg(k) == [i \in 1..64 |-> IF i - 1 >= k THEN 1 ELSE 0]

U64Samples == {U64Pow(k) : k \in 0..63} \cup {U64Ones(k) : k \in 0..64}

\* 2^k and 2^k - 1, and the u64 of the negative i32 and i64 values -(2^k)
VarintProbes ==
    {[kind |-> "varint", n |-> Word(n)] : n \in U64Samples \cup {U64Neg(k) : k \in 0..63}}

\* signed values of both widths: 2^k, 2^k - 1, -(2^k), with 0, -1, INT_MIN
ZigZagProbes ==
    {[kind |-> "zigzag", v |-> Word(Trunc32(n))] :
        n \in {U64Pow(k) : k \in 0..31} \cup {U64Ones(k) : k \in 0..31}
              \cup {U64Neg(k) : k \in 0..31}}
    \cup {[kind |-> "zigzag", v |-> Word(n)] : n \in U64Samples \cup {U64Neg(k) : k \in 0..63}}

\* "a" and a character that takes two bytes in UTF-8
Alphabet == {97, 233}

Typical(kind) ==
    CASE kind = "string" -> <<48, 120>>
      [] kind = "bytes" -> <<1, 2>>
      [] kind = "uint32" -> <<0, 0, 0, 7>>
      [] kind = "int32" -> <<0, 0, 1, 44>>
      [] kind = "Any" -> <<<<97>>, <<10, 1, 49>>>>
      [] kind = "Event*" ->
            << <<<<97>>, <<0, 0, 0, 7>>, <<<<>>, <<10, 1, 49>>>>, <<98>>, <<1>>, <<49>>, <<2>>,
                 <<0, 0, 0, 5>>, <<57>>>>,
               <<<<>>, <<0, 0, 0, 9>>, <<<<>>, <<>>>>, <<98>>, <<>>, <<>>, <<>>,
                 <<0, 0, 0, 0>>, <<>>>> >>

Samples(kind) ==
    CASE kind = "string" -> UNION {[1..n -> Alphabet] : n \in 1..MaxStr}
      [] kind = "bytes" -> {<<1>>, <<0, 255>>}
      [] kind = "uint32" -> {<<0, 0, 0, 1>>, <<0, 0, 0, 9>>, <<0, 0, 1, 44>>, <<255, 255, 255, 255>>}
      [] kind = "int32" -> {<<0, 0, 0, 1>>, <<0, 0, 1, 44>>, <<255, 255, 255, 255>>,
                            <<128, 0, 0, 0>>, <<127, 255, 255, 255>>}
      [] kind = "Any" -> {<<<<97>>, <<>>>>, <<<<>>, <<1, 2>>>>, <<<<97>>, <<1>>>>}
      [] kind = "Event*" ->
            {<<Default("Event")>>, <<Typical(kind)[1]>>, Typical(kind),
             <<Typical(kind)[1], Default("Event"), Typical(kind)[2]>>}

\* the message with every field set
Full(type) == [k \in 1..Len(Fields(type)) |-> Typical(Fields(type)[k])]

\* Every field at its default value, one field set (to each sample of its
\* kind), or every field set.
Messages(type) ==
    {Default(type), Full(type)}
    \cup UNION {{[Default(type) EXCEPT ![k] = v] : v \in Samples(Fields(type)[k])} :
                  k \in 1..Len(Fields(type))}

MessageProbes ==
    UNION {{[kind |-> "message", type |-> t, m |-> m] : m \in Messages(t)} : t \in MessageTypes}

\* Well-formed fields with field numbers no class has (15, 1000 and
\* 2^29 - 1): a varint, a two-byte varint, a fixed64, a length-delimited
\* field, a fixed32, a group, a group holding a field and a group, field 1000
\* and the field with the largest number.
UnknownFields ==
    {<<120, 1>>, <<120, 255, 1>>, <<121, 1, 2, 3, 4, 5, 6, 7, 8>>, <<122, 2, 97, 98>>,
     <<125, 1, 2, 3, 4>>, <<123, 124>>, <<123, 120, 1, 123, 125, 0, 0, 0, 0, 124, 124>>,
     <<192, 62, 0>>, <<248, 255, 255, 255, 15, 1>>}

\* an unknown field spliced in after the first j chunks of an encoded message
UnknownProbes ==
    UNION {{[kind |-> "unknown", type |-> t, m |-> Full(t), at |-> j, field |-> u] :
                j \in 0..Len(Chunks(t, Full(t))), u \in UnknownFields} : t \in MessageTypes}

\* 2^32 - 6: the prefix that takes the cursor back over a tag and itself
U64Minus6 == [i \in 1..64 |-> IF i <= 32 /\ i \notin {1, 3} THEN 1 ELSE 0]

\* Length prefixes larger than the payload that follows them, for each
\* length-delimited read.
LengthProbes ==
    {[kind |-> "length", op |-> op, length |-> Word(n), payload |-> b] :
        op \in {"string", "bytes", "skip", "Events", "Event"},
        b \in {<<>>, <<97>>, <<97, 98, 99>>},
        n \in {U64Pow(2), U64Ones(7), U64Pow(7), U64Ones(31), U64Pow(31), U64Ones(32),
               U64Minus6}}

\* Byte buffers that are no encoding of a message: empty, a lone tag, a tag
\* cut off, fields of unknown number (a varint, a fixed32 cut short, a group
\* that is not closed, a group end alone, the wire types 6 and 7), and
\* length-delimited unknown fields whose prefix is 2^31 - 1, 2^32 - 1 and
\* 2^32 - 6.
Buffers ==
    {<<>>, <<10>>, <<128>>, <<120, 1>>, <<125, 1, 2>>, <<123, 120, 1>>, <<124>>,
     <<126, 0>>, <<127, 0>>, <<122, 1, 97, 120, 1>>,
     <<122, 255, 255, 255, 255, 7>>, <<122, 255, 255, 255, 255, 15>>,
     <<122, 250, 255, 255, 255, 15>>, <<120, 1, 122, 248, 255, 255, 255, 15>>}

BufferProbes ==
    {[kind |-> "buffer", type |-> t, bytes |-> b] : t \in MessageTypes, b \in Buffers}

Probes == VarintProbes \cup ZigZagProbes \cup MessageProbes \cup UnknownProbes
          \cup LengthProbes \cup BufferProbes

----------------------------------------------------------------------------
(* The codec operations, each applied once to the drawn input *)

\* Encoder.varint64 and Sizer.varint64 of n, then Decoder.varint
RunVarint ==
    /\ probe.kind = "varint"
    /\ outcome.kind = "none"
    /\ LET enc == varint64(Digits(Unword(probe.n)))
           dec == varint(ViewOf(enc), 0)
       IN  outcome' = [kind |-> "varint", bytes |-> enc,
                       size |-> Sizer_varint64(Digits(Unword(probe.n))),
                       st |-> dec.st, pos |-> dec.pos,
                       val |-> IF dec.st = "ok" THEN Word(Bits(dec.val)) ELSE <<>>]
    /\ UNCHANGED <<probe, engineVars>>

\* Encoder.sint32 / sint64 of v (by its width), then Decoder.sint32 / sint64
RunZigZag ==
    /\ probe.kind = "zigzag"
    /\ outcome.kind = "none"
    /\ LET enc == IF Len(probe.v) = 4 THEN Encoder_sint32(Unword(probe.v))
                  ELSE Encoder_sint64(Unword(probe.v))
           dec == IF Len(probe.v) = 4 THEN Decoder_sint32(ViewOf(enc), 0)
                  ELSE Decoder_sint64(ViewOf(enc), 0)
       IN  outcome' = [kind |-> "zigzag", bytes |-> enc, st |-> dec.st, pos |-> dec.pos,
                       val |-> IF dec.st = "ok" THEN Word(dec.val) ELSE <<>>]
    /\ UNCHANGED <<probe, engineVars>>

\* the length prefix and the payload length of each length-delimited chunk
Frames(chunks) ==
    [n \in 1..Len(chunks) |->
        IF chunks[n][1] % 8 = 2
        THEN LET l == Decoder_uint32(ViewOf(chunks[n]), 1)
             IN  <<l.val, Len(chunks[n]) - l.pos>>
        ELSE <<0, 0>>]

\* m.size() and m.encodeU8Array(), then T.decode of the bytes
RunMessage ==
    /\ probe.kind = "message"
    /\ outcome.kind = "none"
    /\ LET enc == encodeU8Array(probe.type, probe.m)
           dec == decode(probe.type, enc)
       IN  outcome' = [kind |-> "message", bytes |-> enc, size |-> size(probe.type, probe.m),
                       frames |-> Frames(Chunks(probe.type, probe.m)),
                       st |-> dec.st, pos |-> dec.pos, val |-> dec.val]
    /\ UNCHANGED <<probe, engineVars>>

\* T.decode of an encoded message, without and with an unknown field in it
RunUnknown ==
    /\ probe.kind = "unknown"
    /\ outcome.kind = "none"
    /\ LET chunks == Chunks(probe.type, probe.m)
           with == Flatten(SubSeq(chunks, 1, probe.at)) \o probe.field
                   \o Flatten(SubSeq(chunks, probe.at + 1, Len(chunks)))
           plain == decode(probe.type, Flatten(chunks))
           dec == decode(probe.type, with)
       IN  outcome' = [kind |-> "unknown", bytes |-> with, plain |-> plain.val,
                       st |-> dec.st, pos |-> dec.pos, val |-> dec.val]
    /\ UNCHANGED <<probe, engineVars>>

\* a length-delimited read of a buffer that ends before the prefix says
RunLength ==
    /\ probe.kind = "length"
    /\ outcome.kind = "none"
    /\ LET framed == varint64(Digits(Unword(probe.length))) \o probe.payload
           dec == CASE probe.op = "string" -> Decoder_string(ViewOf(framed), 0)
                    [] probe.op = "bytes" -> Decoder_bytes(ViewOf(framed), 0)
                    [] probe.op = "skip" -> skipType(ViewOf(framed), 0, 2, Fuel(ViewOf(framed)))
                    [] probe.op = "Events" -> decode("Events", <<10>> \o framed)
                    [] probe.op = "Event" -> decode("Event", <<26>> \o framed)
       IN  outcome' = [kind |-> "length", bytes |-> framed,
                       st |-> dec.st, pos |-> dec.pos, val |-> dec.val]
    /\ UNCHANGED <<probe, engineVars>>

\* T.decode of a byte buffer
RunDecode ==
    /\ probe.kind = "buffer"
    /\ outcome.kind = "none"
    /\ LET dec == decode(probe.type, probe.bytes)
       IN  outcome' = [kind |-> "decode", bytes |-> probe.bytes,
                       st |-> dec.st, pos |-> dec.pos, val |-> dec.val]
    /\ UNCHANGED <<probe, engineVars>>

----------------------------------------------------------------------------
(* The entity store and the helpers of the handlers                        *)
(*                                                                         *)
(* An entity type is a map from ids to records; load(id) is null when id   *)
(* is not in the domain.  Addresses are written with one character, and    *)
(* BigInt values and token amounts are integers (every token has 0         *)
(* decimals); prices and the ETH and USD valuations are fractions.         *)

EmptyMap == [x \in {} |-> 0]

\* entity.save(): the record stored under its id, replacing any earlier one
Save(map, id, entity) ==
    [x \in DOMAIN map \cup {id} |-> IF x = id THEN entity ELSE map[x]]

\* the store before the first block
EmptyStore ==
    [factory |-> EmptyMap, bundle |-> EmptyMap, pools |-> EmptyMap, tokens |-> EmptyMap,
     ticks |-> EmptyMap, transactions |-> EmptyMap, positions |-> EmptyMap,
     snapshots |-> EmptyMap, records |-> {}, templates |-> <<>>]

FACTORY_ADDRESS == <<70>>

BundleId == <<49>>

\* the pool handlePoolCreated and the position handlers leave out (0x8fe8...)
TempFixPool == <<56>>

\* the pool handleSwap leaves out (0x9663...)
HotFixPool == <<57>>

\* the block the liquidity handlers leave out
TempFixBlock == 14317993

\* the tokens priced directly against the reference asset
WHITELIST_TOKENS == {<<97>>}

\* a handler that returns, and one that the runtime aborts (a null asserted
\* non-null, a reverted call): s is the store with the saves made until then
Return(s) == [st |-> "ok", store |-> s]

Abort(s) == [st |-> "abort", store |-> s]

RECURSIVE ParseNat(_)
ParseNat(s) == IF s = <<>> THEN 0 ELSE 10 * ParseNat(SubSeq(s, 1, Len(s) - 1)) + (s[Len(s)] - 48)

\* BigInt.fromString / I32.parseInt of a decimal numeral
fromString(s) == IF s # <<>> /\ s[1] = 45 THEN 0 - ParseNat(Tail(s)) ELSE ParseNat(s)

Abs(n) == IF n < 0 THEN 0 - n ELSE n

RECURSIVE GCD(_, _)
GCD(a, b) == IF b = 0 THEN a ELSE GCD(b, a % b)

\* A BigDecimal is the fraction <<n, d>> in lowest terms with d > 0; the
\* rounding of BigDecimal to 34 significant digits is not modelled.
Fraction(n, d) == <<n \div GCD(Abs(n), d), d \div GCD(Abs(n), d)>>

ZERO_BD == <<0, 1>>

ONE_BD == <<1, 1>>

\* BigInt.toBigDecimal
toBigDecimal(n) == <<n, 1>>

\* BigDecimal.plus, .minus, .times, .div and .gt
plus(a, b) == Fraction(a[1] * b[2] + b[1] * a[2], a[2] * b[2])

minus(a, b) == Fraction(a[1] * b[2] - b[1] * a[2], a[2] * b[2])

times(a, b) == Fraction(a[1] * b[1], a[2] * b[2])

div(a, b) ==
    IF b[1] > 0 THEN Fraction(a[1] * b[2], a[2] * b[1])
    ELSE Fraction(0 - (a[1] * b[2]), 0 - (a[2] * b[1]))

gt(a, b) == a[1] * b[2] > b[1] * a[2]

\* safeDiv(amount0, amount1): zero when the divisor is zero
safeDiv(a, b) == IF b = ZERO_BD THEN ZERO_BD ELSE div(a, b)

\* the amount in whole tokens: exact for the tokens modelled (0 decimals)
convertTokenToDecimal(amount, decimals) == amount \div (10 ^ decimals)

feeTierToTickSpacing(feeTier) ==
    CASE feeTier = 10000 -> 200
      [] feeTier = 3000 -> 60
      [] feeTier = 500 -> 10
      [] OTHER -> 1

\* What the contracts answer.  ERC20 decimals(): null for the token "z".
fetchTokenDecimals(token) == IF token = <<122>> THEN <<>> ELSE <<0>>

\* the pool whose contract reverts every read: the pool "4"
RevertingPool == <<52>>

\* NonfungiblePositionManager.try_positions(tokenId) at a block: position 1
\* is a range of the pool "1" over the tokens a and b, position 2 one of the
\* pool "8" over c and d, both burnt in block 3, position 5 one over r and
\* b; the call reverts for any other id
positions(tokenId, blockNumber) ==
    CASE tokenId = 1 /\ blockNumber < 3 ->
            <<[token0 |-> <<97>>, token1 |-> <<98>>, fee |-> 100, tickLower |-> 0,
               tickUpper |-> 2, feeGrowthInside0LastX128 |-> 5,
               feeGrowthInside1LastX128 |-> 6]>>
      [] tokenId = 5 ->
            <<[token0 |-> <<114>>, token1 |-> <<98>>, fee |-> 100, tickLower |-> 0,
               tickUpper |-> 2, feeGrowthInside0LastX128 |-> 5,
               feeGrowthInside1LastX128 |-> 6]>>
      [] tokenId = 2 /\ blockNumber < 3 ->
            <<[token0 |-> <<99>>, token1 |-> <<100>>, fee |-> 100, tickLower |-> 0,
               tickUpper |-> 2, feeGrowthInside0LastX128 |-> 5,
               feeGrowthInside1LastX128 |-> 6]>>
      [] OTHER -> <<>>

\* factoryContract.getPool(token0, token1, fee): the address in a tuple,
\* none when the call reverts (token0 "r")
getPool(token0, token1, fee) ==
    IF token0 = <<114>> THEN <<>>
    ELSE IF token0 = <<97>> THEN <<<<49>>>> ELSE <<TempFixPool>>

\* poolContract.feeGrowthGlobal0X128() and feeGrowthGlobal1X128(), none when
\* the calls revert
feeGrowthGlobal(pool) == IF pool = RevertingPool THEN <<>> ELSE <<7, 8>>

\* poolContract.ticks(tickIdx): values 2 and 3 of the result, none when the
\* call reverts
ticks(pool, tickIdx) == IF pool = RevertingPool THEN <<>> ELSE <<3, 4>>

\* loadTransaction(txDetails): the Transaction of the hash, created or updated
loadTransaction(s, tx) ==
    [s EXCEPT !.transactions =
        Save(@, tx.transactionHash,
             [blockNumber |-> tx.blockNumber, timestamp |-> tx.blockTimestamp,
              gasUsed |-> tx.transactionGasUsed, gasPrice |-> tx.transactionGasPrice])]

\* the wrapped form of the reference asset: the token "a"
WETH_ADDRESS == <<97>>

\* the pool of the stable asset whose ratio is the price of the reference
\* asset: the pool "1"
ReferencePool == <<49>>

\* the least amount locked, in the reference asset, for a pool to give a price
MINIMUM_ETH_LOCKED == <<1, 1>>

\* sqrtPriceX96ToTokenPrices(sqrtPriceX96, token0, token1): the pair of
\* prices; sqrtPrice counts units of 2^96
sqrtPriceX96ToTokenPrices(sqrtPrice, token0, token1) ==
    LET price0 == IF token0.decimals >= token1.decimals
                  THEN Fraction(sqrtPrice * sqrtPrice
                                    * (10 ^ (token0.decimals - token1.decimals)), 1)
                  ELSE Fraction(sqrtPrice * sqrtPrice,
                                10 ^ (token1.decimals - token0.decimals))
    IN  <<price0, safeDiv(ONE_BD, price0)>>

\* getEthPriceInUSD(): the ratio of the reference pool once it has liquidity,
\* zero before
getEthPriceInUSD(s) ==
    IF ReferencePool \in DOMAIN s.pools /\ s.pools[ReferencePool].liquidity # 0
    THEN s.pools[ReferencePool].token0Price
    ELSE ZERO_BD

\* The scan of findEthPerToken over whitelistPools from position i on, with
\* the largest amount locked and the price found so far.
RECURSIVE ScanWhitelist(_, _, _, _, _, _)
ScanWhitelist(s, id, whitelistPools, i, largest, price) ==
    IF i > Len(whitelistPools) THEN price
    ELSE LET pool == s.pools[whitelistPools[i]]
             other == IF pool.token0 = id THEN pool.token1 ELSE pool.token0
             locked == times(toBigDecimal(IF pool.token0 = id
                                          THEN pool.totalValueLockedToken1
                                          ELSE pool.totalValueLockedToken0),
                             s.tokens[other].derivedETH)
             quote == times(IF pool.token0 = id THEN pool.token1Price
                            ELSE pool.token0Price,
                            s.tokens[other].derivedETH)
         IN  IF gt(locked, largest) /\ ~gt(MINIMUM_ETH_LOCKED, locked)
             THEN ScanWhitelist(s, id, whitelistPools, i + 1, locked, quote)
             ELSE ScanWhitelist(s, id, whitelistPools, i + 1, largest, price)

\* findEthPerToken(token): 1 for the reference asset, else the price in the
\* whitelist pool with the most locked, zero when no pool is eligible
findEthPerToken(s, id, token) ==
    IF id = WETH_ADDRESS THEN ONE_BD
    ELSE ScanWhitelist(s, id, token.whitelistPools, 1, ZERO_BD, ZERO_BD)

\* token.derivedETH.times(bundle.ethPriceUSD) applied to an amount
ValueUSD(amount, token, bundle) ==
    times(toBigDecimal(amount), times(token.derivedETH, bundle.ethPriceUSD))

\* getTrackedAmountUSD(amount0, token0, amount1, token1): the value of the
\* legs in whitelisted tokens, one such leg counted twice
getTrackedAmountUSD(s, amount0, id0, token0, amount1, id1, token1) ==
    LET bundle == s.bundle[BundleId]
    IN  IF id0 \in WHITELIST_TOKENS /\ id1 \in WHITELIST_TOKENS
        THEN plus(ValueUSD(amount0, token0, bundle), ValueUSD(amount1, token1, bundle))
        ELSE IF id0 \in WHITELIST_TOKENS
        THEN times(ValueUSD(amount0, token0, bundle), toBigDecimal(2))
        ELSE IF id1 \in WHITELIST_TOKENS
        THEN times(ValueUSD(amount1, token1, bundle), toBigDecimal(2))
        ELSE ZERO_BD

\* update...DayData / update...HourData: the snapshot of the entity for the
\* bucket of the block, created if absent
Snapshot(s, ids) == [s EXCEPT !.records = @ \cup ids]

\* createTick(tickId, tickIdx, poolId, txDetails)
createTick(tickIdx, pool) ==
    [tickIdx |-> tickIdx, pool |-> pool, liquidityGross |-> 0, liquidityNet |-> 0,
     feeGrowthOutside0X128 |-> 0, feeGrowthOutside1X128 |-> 0]

\* the fee variables read and the day data updated, tick.save() left out
updateTickFeeVarsAndSave_unsaved(s, tick, tx) ==
    Snapshot(s, {<<"TickDayData", <<tx.address, tick.tickIdx>>>>})

\* updateTickFeeVarsAndSave(tick, txDetails)
updateTickFeeVarsAndSave(s, tick, tx) ==
    LET id == <<tx.address, tick.tickIdx>>
        result == ticks(tx.address, tick.tickIdx)
    IN  Snapshot([s EXCEPT !.ticks =
                      Save(@, id, [tick EXCEPT !.feeGrowthOutside0X128 = result[1],
                                               !.feeGrowthOutside1X128 = result[2]])],
                 {<<"TickDayData", id>>})

\* loadTickUpdateFeeVarsAndSave(tickId, txDetails)
loadTickUpdateFeeVarsAndSave(s, tickIdx, tx) ==
    IF <<tx.address, tickIdx>> \in DOMAIN s.ticks
    THEN updateTickFeeVarsAndSave(s, s.ticks[<<tx.address, tickIdx>>], tx)
    ELSE s

\* txDetailsFromHeader(header)
txDetailsFromHeader(header) ==
    [address |-> header[4], blockNumber |-> I32OfWord(header[8]),
     blockTimestamp |-> fromString(header[9]),
     transactionGasUsed |-> fromString(header[6]),
     transactionGasPrice |-> header[7], transactionHash |-> header[5]]
----------------------------------------------------------------------------
(* The handlers of core: (store, txDetails, event) -> outcome and store *)

\* Bundle.load('1')!, Factory.load(FACTORY_ADDRESS_STR)!, Token.load(pool.token0)!
\* and Token.load(pool.token1)! all find their entity
Resolved(s, pool) ==
    /\ BundleId \in DOMAIN s.bundle
    /\ FACTORY_ADDRESS \in DOMAIN s.factory
    /\ pool.token0 \in DOMAIN s.tokens
    /\ pool.token1 \in DOMAIN s.tokens

handleInitialize(s, tx, event) ==
    IF tx.address \notin DOMAIN s.pools THEN Return(s)
    ELSE LET pool == [s.pools[tx.address] EXCEPT !.sqrtPrice = fromString(event[1]),
                                                  !.tick = <<fromString(event[2])>>]
             s1 == [s EXCEPT !.pools = Save(@, tx.address, pool)]
         IN  \* Token.load(pool.token0)!, Token.load(pool.token1)!, Bundle.load('1')!
             IF \/ pool.token0 \notin DOMAIN s1.tokens
                \/ pool.token1 \notin DOMAIN s1.tokens
                \/ BundleId \notin DOMAIN s1.bundle
             THEN Abort(s1)
             ELSE
             LET s2 == Snapshot([s1 EXCEPT !.bundle = Save(@, BundleId,
                                     [s1.bundle[BundleId] EXCEPT
                                         !.ethPriceUSD = getEthPriceInUSD(s1)])],
                                {<<"PoolDayData", tx.address>>,
                                 <<"PoolHourData", tx.address>>})
                 token0 == [s2.tokens[pool.token0] EXCEPT !.derivedETH =
                               findEthPerToken(s2, pool.token0, s2.tokens[pool.token0])]
                 token1 == [s2.tokens[pool.token1] EXCEPT !.derivedETH =
                               findEthPerToken(s2, pool.token1, s2.tokens[pool.token1])]
             IN  Return([s2 EXCEPT !.tokens =
                            Save(Save(@, pool.token0, token0), pool.token1, token1)])

\* a range closed at tickUpper
InRange_closed(pool, tickLower, tickUpper) ==
    pool.tick # <<>> /\ tickLower <= pool.tick[1] /\ tickUpper >= pool.tick[1]

\* pool.tick !== null && tickLower <= pool.tick && tickUpper > pool.tick
InRange(pool, tickLower, tickUpper) ==
    pool.tick # <<>> /\ tickLower <= pool.tick[1] /\ tickUpper > pool.tick[1]

\* the snapshots handleMint, handleBurn and handleSwap update
IntervalUpdates(s, pool, tx) ==
    Snapshot(s, {<<"UniswapDayData", FACTORY_ADDRESS>>, <<"PoolDayData", tx.address>>,
                 <<"PoolHourData", tx.address>>, <<"TokenDayData", pool.token0>>,
                 <<"TokenDayData", pool.token1>>, <<"TokenHourData", pool.token0>>,
                 <<"TokenHourData", pool.token1>>})

\* the saves with the amounts locked added whatever their sign
SaveLiquidity_unsigned(s, tx, pool, amount, amount0, amount1, inRange) ==
    LET bundle == s.bundle[BundleId]
        factory == s.factory[FACTORY_ADDRESS]
        token0 == [s.tokens[pool.token0] EXCEPT
                      !.txCount = @ + 1,
                      !.totalValueLocked = @ + Abs(amount0),
                      !.totalValueLockedUSD =
                          ValueUSD(s.tokens[pool.token0].totalValueLocked + Abs(amount0),
                                   s.tokens[pool.token0], bundle)]
        tokens0 == Save(s.tokens, pool.token0, token0)
        token1 == [s.tokens[pool.token1] EXCEPT
                      !.txCount = @ + 1,
                      !.totalValueLocked = @ + Abs(amount1),
                      !.totalValueLockedUSD =
                          ValueUSD(s.tokens[pool.token1].totalValueLocked + Abs(amount1),
                                   s.tokens[pool.token1], bundle)]
        lockedETH == plus(times(toBigDecimal(pool.totalValueLockedToken0 + Abs(amount0)),
                                token0.derivedETH),
                          times(toBigDecimal(pool.totalValueLockedToken1 + Abs(amount1)),
                                token1.derivedETH))
        \* the pool's old value taken out of the factory's, the new one put in
        factoryETH == plus(minus(factory.totalValueLockedETH, pool.totalValueLockedETH),
                           lockedETH)
    IN  [s EXCEPT !.tokens = Save(tokens0, pool.token1, token1),
                  !.pools = Save(@, tx.address,
                      [pool EXCEPT !.txCount = @ + 1,
                                   !.liquidity = IF inRange THEN @ + amount ELSE @,
                                   !.totalValueLockedToken0 = @ + Abs(amount0),
                                   !.totalValueLockedToken1 = @ + Abs(amount1),
                                   !.totalValueLockedETH = lockedETH,
                                   !.totalValueLockedUSD =
                                       times(lockedETH, bundle.ethPriceUSD)]),
                  !.factory = Save(@, FACTORY_ADDRESS,
                      [factory EXCEPT !.txCount = @ + 1,
                                      !.totalValueLockedETH = factoryETH,
                                      !.totalValueLockedUSD =
                                          times(factoryETH, bundle.ethPriceUSD)])]

\* a SaveLiquidity that adds the pool's new value locked to the factory's
\* without taking the old one out
SaveLiquidity_added(s, tx, pool, amount, amount0, amount1, inRange) ==
    LET bundle == s.bundle[BundleId]
        factory == s.factory[FACTORY_ADDRESS]
        token0 == [s.tokens[pool.token0] EXCEPT
                      !.txCount = @ + 1,
                      !.totalValueLocked = @ + amount0,
                      !.totalValueLockedUSD =
                          ValueUSD(s.tokens[pool.token0].totalValueLocked + amount0,
                                   s.tokens[pool.token0], bundle)]
        tokens0 == Save(s.tokens, pool.token0, token0)
        token1 == [s.tokens[pool.token1] EXCEPT
                      !.txCount = @ + 1,
                      !.totalValueLocked = @ + amount1,
                      !.totalValueLockedUSD =
                          ValueUSD(s.tokens[pool.token1].totalValueLocked + amount1,
                                   s.tokens[pool.token1], bundle)]
        lockedETH == plus(times(toBigDecimal(pool.totalValueLockedToken0 + amount0),
                                token0.derivedETH),
                          times(toBigDecimal(pool.totalValueLockedToken1 + amount1),
                                token1.derivedETH))
        factoryETH == plus(factory.totalValueLockedETH, lockedETH)
    IN  [s EXCEPT !.tokens = Save(tokens0, pool.token1, token1),
                  !.pools = Save(@, tx.address,
                      [pool EXCEPT !.txCount = @ + 1,
                                   !.liquidity = IF inRange THEN @ + amount ELSE @,
                                   !.totalValueLockedToken0 = @ + amount0,
                                   !.totalValueLockedToken1 = @ + amount1,
                                   !.totalValueLockedETH = lockedETH,
                                   !.totalValueLockedUSD =
                                       times(lockedETH, bundle.ethPriceUSD)]),
                  !.factory = Save(@, FACTORY_ADDRESS,
                      [factory EXCEPT !.txCount = @ + 1,
                                      !.totalValueLockedETH = factoryETH,
                                      !.totalValueLockedUSD =
                                          times(factoryETH, bundle.ethPriceUSD)])]

\* token0.save(), token1.save(), pool.save(), factory.save() after a Mint or a
\* Burn of amount (signed), amount0 and amount1
SaveLiquidity(s, tx, pool, amount, amount0, amount1, inRange) ==
    LET bundle == s.bundle[BundleId]
        factory == s.factory[FACTORY_ADDRESS]
        token0 == [s.tokens[pool.token0] EXCEPT
                      !.txCount = @ + 1,
                      !.totalValueLocked = @ + amount0,
                      !.totalValueLockedUSD =
                          ValueUSD(s.tokens[pool.token0].totalValueLocked + amount0,
                                   s.tokens[pool.token0], bundle)]
        tokens0 == Save(s.tokens, pool.token0, token0)
        token1 == [s.tokens[pool.token1] EXCEPT
                      !.txCount = @ + 1,
                      !.totalValueLocked = @ + amount1,
                      !.totalValueLockedUSD =
                          ValueUSD(s.tokens[pool.token1].totalValueLocked + amount1,
                                   s.tokens[pool.token1], bundle)]
        lockedETH == plus(times(toBigDecimal(pool.totalValueLockedToken0 + amount0),
                                token0.derivedETH),
                          times(toBigDecimal(pool.totalValueLockedToken1 + amount1),
                                token1.derivedETH))
        \* the pool's old value taken out of the factory's, the new one put in
        factoryETH == plus(minus(factory.totalValueLockedETH, pool.totalValueLockedETH),
                           lockedETH)
    IN  [s EXCEPT !.tokens = Save(tokens0, pool.token1, token1),
                  !.pools = Save(@, tx.address,
                      [pool EXCEPT !.txCount = @ + 1,
                                   !.liquidity = IF inRange THEN @ + amount ELSE @,
                                   !.totalValueLockedToken0 = @ + amount0,
                                   !.totalValueLockedToken1 = @ + amount1,
                                   !.totalValueLockedETH = lockedETH,
                                   !.totalValueLockedUSD =
                                       times(lockedETH, bundle.ethPriceUSD)]),
                  !.factory = Save(@, FACTORY_ADDRESS,
                      [factory EXCEPT !.txCount = @ + 1,
                                      !.totalValueLockedETH = factoryETH,
                                      !.totalValueLockedUSD =
                                          times(factoryETH, bundle.ethPriceUSD)])]

handleMint(s, tx, event) ==
    IF tx.address \notin DOMAIN s.pools THEN Return(s)
    ELSE LET pool == s.pools[tx.address]
             amount == fromString(event[5])
             tickLower == fromString(event[3])
             tickUpper == fromString(event[4])
         IN  IF ~Resolved(s, pool) THEN Abort(s)
             ELSE
             LET amount0 == convertTokenToDecimal(fromString(event[6]),
                                                  s.tokens[pool.token0].decimals)
                 amount1 == convertTokenToDecimal(fromString(event[7]),
                                                  s.tokens[pool.token1].decimals)
                 s1 == loadTransaction(s, tx)
                 lowerTick == IF <<tx.address, tickLower>> \in DOMAIN s1.ticks
                              THEN s1.ticks[<<tx.address, tickLower>>]
                              ELSE createTick(tickLower, tx.address)
                 upperTick == IF <<tx.address, tickUpper>> \in DOMAIN s1.ticks
                              THEN s1.ticks[<<tx.address, tickUpper>>]
                              ELSE createTick(tickUpper, tx.address)
                 s2 == SaveLiquidity(IntervalUpdates(s1, pool, tx), tx, pool, amount,
                                     amount0, amount1, InRange(pool, tickLower, tickUpper))
                 s3 == [s2 EXCEPT !.records =
                           @ \cup {<<"Mint", tx.transactionHash, pool.txCount + 1>>}]
                 s4 == updateTickFeeVarsAndSave(s3,
                           [lowerTick EXCEPT !.liquidityGross = @ + amount,
                                             !.liquidityNet = @ + amount], tx)
             IN  \* poolContract.ticks() reverts in updateTickFeeVarsAndSave
                 IF ticks(tx.address, tickLower) = <<>> THEN Abort(s3)
                 ELSE Return(updateTickFeeVarsAndSave(s4,
                           [upperTick EXCEPT !.liquidityGross = @ + amount,
                                             !.liquidityNet = @ - amount], tx))

\* a handleBurn that lowers the liquidityNet of the upper tick as well
handleBurn_netLowered(s, tx, event) ==
    IF tx.address \notin DOMAIN s.pools THEN Return(s)
    ELSE LET pool == s.pools[tx.address]
             amount == fromString(event[4])
             tickLower == fromString(event[2])
             tickUpper == fromString(event[3])
         IN  IF ~Resolved(s, pool) THEN Abort(s)
             ELSE
             LET amount0 == convertTokenToDecimal(fromString(event[5]),
                                                  s.tokens[pool.token0].decimals)
                 amount1 == convertTokenToDecimal(fromString(event[6]),
                                                  s.tokens[pool.token1].decimals)
                 s1 == loadTransaction(s, tx)
             IN  \* Tick.load(lowerTickId)! and Tick.load(upperTickId)!
                 IF \/ <<tx.address, tickLower>> \notin DOMAIN s1.ticks
                    \/ <<tx.address, tickUpper>> \notin DOMAIN s1.ticks
                 THEN Abort(s1)
                 ELSE
                 \* poolContract.ticks() reverts in updateTickFeeVarsAndSave
                 IF ticks(tx.address, tickLower) = <<>>
                 THEN Abort(IntervalUpdates(s1, pool, tx))
                 ELSE
                 LET lowerTick == s1.ticks[<<tx.address, tickLower>>]
                     upperTick == s1.ticks[<<tx.address, tickUpper>>]
                     s2 == updateTickFeeVarsAndSave(IntervalUpdates(s1, pool, tx),
                               [lowerTick EXCEPT !.liquidityGross = @ - amount,
                                                 !.liquidityNet = @ - amount], tx)
                     s3 == updateTickFeeVarsAndSave(s2,
                               [upperTick EXCEPT !.liquidityGross = @ - amount,
                                                 !.liquidityNet = @ - amount], tx)
                     s4 == SaveLiquidity(s3, tx, pool, 0 - amount, 0 - amount0,
                                         0 - amount1, InRange(pool, tickLower, tickUpper))
                 IN  Return([s4 EXCEPT !.records =
                                @ \cup {<<"Burn", tx.transactionHash, pool.txCount + 1>>}])

handleBurn(s, tx, event) ==
    IF tx.address \notin DOMAIN s.pools THEN Return(s)
    ELSE LET pool == s.pools[tx.address]
             amount == fromString(event[4])
             tickLower == fromString(event[2])
             tickUpper == fromString(event[3])
         IN  IF ~Resolved(s, pool) THEN Abort(s)
             ELSE
             LET amount0 == convertTokenToDecimal(fromString(event[5]),
                                                  s.tokens[pool.token0].decimals)
                 amount1 == convertTokenToDecimal(fromString(event[6]),
                                                  s.tokens[pool.token1].decimals)
                 s1 == loadTransaction(s, tx)
             IN  \* Tick.load(lowerTickId)! and Tick.load(upperTickId)!
                 IF \/ <<tx.address, tickLower>> \notin DOMAIN s1.ticks
                    \/ <<tx.address, tickUpper>> \notin DOMAIN s1.ticks
                 THEN Abort(s1)
                 ELSE
                 \* poolContract.ticks() reverts in updateTickFeeVarsAndSave
                 IF ticks(tx.address, tickLower) = <<>>
                 THEN Abort(IntervalUpdates(s1, pool, tx))
                 ELSE
                 LET lowerTick == s1.ticks[<<tx.address, tickLower>>]
                     upperTick == s1.ticks[<<tx.address, tickUpper>>]
                     s2 == updateTickFeeVarsAndSave(IntervalUpdates(s1, pool, tx),
                               [lowerTick EXCEPT !.liquidityGross = @ - amount,
                                                 !.liquidityNet = @ - amount], tx)
                     s3 == updateTickFeeVarsAndSave(s2,
                               [upperTick EXCEPT !.liquidityGross = @ - amount,
                                                 !.liquidityNet = @ + amount], tx)
                     s4 == SaveLiquidity(s3, tx, pool, 0 - amount, 0 - amount0,
                                         0 - amount1, InRange(pool, tickLower, tickUpper))
                 IN  Return([s4 EXCEPT !.records =
                                @ \cup {<<"Burn", tx.transactionHash, pool.txCount + 1>>}])

\* the ticks the loops of handleSwap visit between oldTick and newTick, at
\* most 100 steps apart
SweptTicks(oldTick, newTick, tickSpacing, modulo) ==
    IF Abs(oldTick - newTick) \div tickSpacing > 100 THEN {}
    ELSE IF newTick > oldTick
    THEN {i \in oldTick..newTick :
            i >= oldTick + (tickSpacing - modulo)
            /\ (i - (oldTick + (tickSpacing - modulo))) % tickSpacing = 0}
    ELSE IF newTick < oldTick
    THEN {i \in newTick..(oldTick + Abs(modulo)) :
            i <= oldTick - modulo /\ ((oldTick - modulo) - i) % tickSpacing = 0}
    ELSE {}

\* BigInt.mod: the remainder has the sign of the dividend
Mod(a, b) == IF a >= 0 THEN a % b ELSE 0 - ((0 - a) % b)

\* The ticks handleSwap refreshes for a move from oldTick to newTick in a pool
\* of the fee tier: newTick itself when it is a multiple of the tick spacing
\* (current), and the ticks its loops visit (crossed).
Sweep(oldTick, newTick, feeTier) ==
    [current |-> IF Mod(newTick, feeTierToTickSpacing(feeTier)) = 0 THEN {newTick} ELSE {},
     crossed |-> SweptTicks(oldTick, newTick, feeTierToTickSpacing(feeTier),
                            Mod(newTick, feeTierToTickSpacing(feeTier)))]

RECURSIVE RefreshTicks(_, _, _)
RefreshTicks(s, idxs, tx) ==
    IF idxs = {} THEN s
    ELSE LET i == CHOOSE i \in idxs : TRUE
         IN  RefreshTicks(loadTickUpdateFeeVarsAndSave(s, i, tx), idxs \ {i}, tx)

\* the prices refreshed from the store as it was before pool.save()
RefreshPrices_beforeSave(s, tx, pool, token0, token1) ==
    LET prices == sqrtPriceX96ToTokenPrices(pool.sqrtPrice, token0, token1)
        priced == [pool EXCEPT !.token0Price = prices[1], !.token1Price = prices[2]]
        s1 == [s EXCEPT !.pools = Save(@, tx.address, priced),
                        !.bundle = Save(@, BundleId, [s.bundle[BundleId] EXCEPT
                                                        !.ethPriceUSD = getEthPriceInUSD(s)])]
    IN  [store |-> s1, pool |-> priced,
         token0 |-> [token0 EXCEPT !.derivedETH = findEthPerToken(s, pool.token0, token0)],
         token1 |-> [token1 EXCEPT !.derivedETH = findEthPerToken(s, pool.token1, token1)]]

\* handleSwap from "updated pool rates" to "update USD pricing": the pool
\* with its new prices saved, then bundle.ethPriceUSD read back and saved,
\* then the derivedETH of token0 and token1
RefreshPrices(s, tx, pool, token0, token1) ==
    LET prices == sqrtPriceX96ToTokenPrices(pool.sqrtPrice, token0, token1)
        priced == [pool EXCEPT !.token0Price = prices[1], !.token1Price = prices[2]]
        s1 == [s EXCEPT !.pools = Save(@, tx.address, priced)]
        s2 == [s1 EXCEPT !.bundle = Save(@, BundleId, [s1.bundle[BundleId] EXCEPT
                                                         !.ethPriceUSD = getEthPriceInUSD(s1)])]
    IN  [store |-> s2, pool |-> priced,
         token0 |-> [token0 EXCEPT !.derivedETH = findEthPerToken(s2, pool.token0, token0)],
         token1 |-> [token1 EXCEPT !.derivedETH = findEthPerToken(s2, pool.token1, token1)]]

handleSwap(s, tx, event) ==
    IF tx.address \notin DOMAIN s.pools THEN Return(s)
    \* hot fix for bad pricing
    ELSE IF tx.address = HotFixPool THEN Return(s)
    ELSE LET pool == s.pools[tx.address]
         IN  IF ~Resolved(s, pool) THEN Abort(s)
             \* let oldTick = pool.tick!
             ELSE IF pool.tick = <<>> THEN Abort(s)
             ELSE
             LET oldTick == pool.tick[1]
                 newTick == fromString(event[7])
                 factory == s.factory[FACTORY_ADDRESS]
                 amount0 == convertTokenToDecimal(fromString(event[3]),
                                                  s.tokens[pool.token0].decimals)
                 amount1 == convertTokenToDecimal(fromString(event[4]),
                                                  s.tokens[pool.token1].decimals)
                 amountTotalUSDTracked ==
                     div(getTrackedAmountUSD(s, Abs(amount0), pool.token0,
                                             s.tokens[pool.token0], Abs(amount1),
                                             pool.token1, s.tokens[pool.token1]),
                         toBigDecimal(2))
                 feesUSD == div(times(amountTotalUSDTracked, toBigDecimal(pool.feeTier)),
                                toBigDecimal(1000000))
                 growth == feeGrowthGlobal(tx.address)
                 pool1 == [pool EXCEPT !.volumeToken0 = @ + Abs(amount0),
                                       !.volumeToken1 = @ + Abs(amount1),
                                       !.volumeUSD = plus(@, amountTotalUSDTracked),
                                       !.feesUSD = plus(@, feesUSD),
                                       !.txCount = @ + 1,
                                       !.liquidity = fromString(event[6]),
                                       !.tick = <<newTick>>,
                                       !.sqrtPrice = fromString(event[5]),
                                       !.totalValueLockedToken0 = @ + amount0,
                                       !.totalValueLockedToken1 = @ + amount1]
                 token0 == [s.tokens[pool.token0] EXCEPT
                               !.volume = @ + Abs(amount0),
                               !.totalValueLocked = @ + amount0,
                               !.volumeUSD = plus(@, amountTotalUSDTracked),
                               !.feesUSD = plus(@, feesUSD),
                               !.txCount = @ + 1]
                 token1 == [s.tokens[pool.token1] EXCEPT
                               !.volume = @ + Abs(amount1),
                               !.totalValueLocked = @ + amount1,
                               !.volumeUSD = plus(@, amountTotalUSDTracked),
                               !.feesUSD = plus(@, feesUSD),
                               !.txCount = @ + 1]
                 fresh == RefreshPrices(s, tx, pool1, token0, token1)
                 bundle == fresh.store.bundle[BundleId]
                 \* things affected by new USD rates
                 lockedETH == plus(times(toBigDecimal(pool1.totalValueLockedToken0),
                                         fresh.token0.derivedETH),
                                   times(toBigDecimal(pool1.totalValueLockedToken1),
                                         fresh.token1.derivedETH))
                 factoryETH == plus(minus(factory.totalValueLockedETH,
                                          pool.totalValueLockedETH), lockedETH)
                 pool2 == [fresh.pool EXCEPT
                              !.totalValueLockedETH = lockedETH,
                              !.totalValueLockedUSD = times(lockedETH, bundle.ethPriceUSD),
                              !.feeGrowthGlobal0X128 = growth[1],
                              !.feeGrowthGlobal1X128 = growth[2]]
                 s1 == IntervalUpdates(loadTransaction(fresh.store, tx), pool, tx)
                 s2 == [s1 EXCEPT
                          !.pools = Save(@, tx.address, pool2),
                          !.tokens = Save(Save(@, pool.token0,
                              [fresh.token0 EXCEPT !.totalValueLockedUSD =
                                  ValueUSD(token0.totalValueLocked, fresh.token0, bundle)]),
                              pool.token1,
                              [fresh.token1 EXCEPT !.totalValueLockedUSD =
                                  ValueUSD(token1.totalValueLocked, fresh.token1, bundle)]),
                          !.factory = Save(@, FACTORY_ADDRESS,
                              [factory EXCEPT
                                  !.txCount = @ + 1,
                                  !.totalVolumeUSD = plus(@, amountTotalUSDTracked),
                                  !.totalFeesUSD = plus(@, feesUSD),
                                  !.totalValueLockedETH = factoryETH,
                                  !.totalValueLockedUSD =
                                      times(factoryETH, bundle.ethPriceUSD)]),
                          !.records = @ \cup {<<"Swap", tx.transactionHash,
                                                pool1.txCount>>}]
                 sweep == Sweep(oldTick, newTick, pool.feeTier)
                 s3 == RefreshTicks(s2, sweep.current, tx)
             IN  \* poolContract.feeGrowthGlobal0X128() reverts
                 IF growth = <<>> THEN Abort(loadTransaction(fresh.store, tx))
                 ELSE Return(RefreshTicks(s3, sweep.crossed, tx))

\* a handleFlash that records the transaction before it looks for the pool
handleFlash_txFirst(s, tx) ==
    IF tx.address \notin DOMAIN s.pools THEN Return(loadTransaction(s, tx))
    ELSE IF feeGrowthGlobal(tx.address) = <<>> THEN Abort(s)
    ELSE LET growth == feeGrowthGlobal(tx.address)
         IN  Return([s EXCEPT !.pools = Save(@, tx.address,
                        [s.pools[tx.address] EXCEPT !.feeGrowthGlobal0X128 = growth[1],
                                                    !.feeGrowthGlobal1X128 = growth[2]])])

\* a handleFlash that counts the Flash as a transaction of the pool
handleFlash_counted(s, tx) ==
    IF tx.address \notin DOMAIN s.pools THEN Return(s)
    ELSE IF feeGrowthGlobal(tx.address) = <<>> THEN Abort(s)
    ELSE LET growth == feeGrowthGlobal(tx.address)
         IN  Return([s EXCEPT !.pools = Save(@, tx.address,
                        [s.pools[tx.address] EXCEPT !.feeGrowthGlobal0X128 = growth[1],
                                                    !.feeGrowthGlobal1X128 = growth[2],
                                                    !.txCount = @ + 1])])

handleFlash(s, tx) ==
    IF tx.address \notin DOMAIN s.pools THEN Return(s)
    \* a call that reverts ends the handler
    ELSE IF feeGrowthGlobal(tx.address) = <<>> THEN Abort(s)
    ELSE LET growth == feeGrowthGlobal(tx.address)
         IN  Return([s EXCEPT !.pools = Save(@, tx.address,
                        [s.pools[tx.address] EXCEPT !.feeGrowthGlobal0X128 = growth[1],
                                                    !.feeGrowthGlobal1X128 = growth[2]])])
----------------------------------------------------------------------------
(* The handlers of the position manager and of the factory *)

\* getPosition(address, tokenId, txDetails): the position (none when the
\* call reverts) and the store, which has the transaction once a position
\* is made
getPosition(s, tokenId, tx) ==
    IF tokenId \in DOMAIN s.positions
    THEN [position |-> <<s.positions[tokenId]>>, store |-> s, reverted |-> FALSE]
    ELSE IF positions(tokenId, tx.blockNumber) = <<>>
    THEN [position |-> <<>>, store |-> s, reverted |-> FALSE]
    \* factoryContract.getPool reverts
    ELSE IF getPool(positions(tokenId, tx.blockNumber)[1].token0,
                    positions(tokenId, tx.blockNumber)[1].token1,
                    positions(tokenId, tx.blockNumber)[1].fee) = <<>>
    THEN [position |-> <<>>, store |-> s, reverted |-> TRUE]
    ELSE LET result == positions(tokenId, tx.blockNumber)[1]
             pool == getPool(result.token0, result.token1, result.fee)[1]
         IN  [reverted |-> FALSE, position |->
                <<[id |-> tokenId, owner |-> <<48>>, pool |-> pool,
                   token0 |-> result.token0, token1 |-> result.token1,
                   tickLower |-> <<pool, result.tickLower>>,
                   tickUpper |-> <<pool, result.tickUpper>>, liquidity |-> 0,
                   depositedToken0 |-> 0, depositedToken1 |-> 0,
                   withdrawnToken0 |-> 0, withdrawnToken1 |-> 0,
                   collectedFeesToken0 |-> 0, collectedFeesToken1 |-> 0,
                   feeGrowthInside0LastX128 |-> result.feeGrowthInside0LastX128,
                   feeGrowthInside1LastX128 |-> result.feeGrowthInside1LastX128]>>,
              store |-> loadTransaction(s, tx)]

\* an updateFeeVars that clears the fee growth when positions() reverts
updateFeeVars_cleared(position, tx) ==
    IF positions(position.id, tx.blockNumber) = <<>>
    THEN [position EXCEPT !.feeGrowthInside0LastX128 = 0,
                          !.feeGrowthInside1LastX128 = 0]
    ELSE [position EXCEPT
            !.feeGrowthInside0LastX128 =
                positions(position.id, tx.blockNumber)[1].feeGrowthInside0LastX128,
            !.feeGrowthInside1LastX128 =
                positions(position.id, tx.blockNumber)[1].feeGrowthInside1LastX128]

\* updateFeeVars(position, address, tokenId) in the block of tx
updateFeeVars(position, tx) ==
    IF positions(position.id, tx.blockNumber) = <<>> THEN position
    ELSE [position EXCEPT
            !.feeGrowthInside0LastX128 =
                positions(position.id, tx.blockNumber)[1].feeGrowthInside0LastX128,
            !.feeGrowthInside1LastX128 =
                positions(position.id, tx.blockNumber)[1].feeGrowthInside1LastX128]

\* position.save() and savePositionSnapshot(position, txDetails)
SavePosition(s, position, tx) ==
    LET s1 == [s EXCEPT !.positions = Save(@, position.id, position)]
    IN  [loadTransaction(s1, tx) EXCEPT
            !.snapshots = Save(@, <<position.id, tx.blockNumber>>, position),
            !.records = @ \cup {<<"PositionSnapshot", position.id, tx.blockNumber>>}]

handleIncreaseLiquidity(s, tx, event) ==
    IF tx.blockNumber = TempFixBlock THEN Return(s)
    ELSE LET got == getPosition(s, fromString(event[1]), tx)
         IN  IF got.reverted THEN Abort(got.store)
             ELSE IF got.position = <<>> THEN Return(got.store)
             ELSE IF got.position[1].pool = TempFixPool THEN Return(got.store)
             ELSE LET position == got.position[1]
                  IN  \* Token.load(position.token0)! and Token.load(position.token1)!
                      IF \/ position.token0 \notin DOMAIN s.tokens
                         \/ position.token1 \notin DOMAIN s.tokens
                      THEN Abort(got.store)
                      ELSE Return(SavePosition(got.store,
                              updateFeeVars(
                                [position EXCEPT
                                   !.liquidity = @ + fromString(event[2]),
                                   !.depositedToken0 = @ + convertTokenToDecimal(
                                       fromString(event[3]),
                                       s.tokens[position.token0].decimals),
                                   !.depositedToken1 = @ + convertTokenToDecimal(
                                       fromString(event[4]),
                                       s.tokens[position.token1].decimals)], tx), tx))

handleDecreaseLiquidity(s, tx, event) ==
    IF tx.blockNumber = TempFixBlock THEN Return(s)
    ELSE LET got == getPosition(s, fromString(event[1]), tx)
         IN  IF got.reverted THEN Abort(got.store)
             ELSE IF got.position = <<>> THEN Return(got.store)
             ELSE IF got.position[1].pool = TempFixPool THEN Return(got.store)
             ELSE LET position == got.position[1]
                  IN  IF \/ position.token0 \notin DOMAIN s.tokens
                         \/ position.token1 \notin DOMAIN s.tokens
                      THEN Abort(got.store)
                      ELSE Return(SavePosition(got.store,
                              updateFeeVars(
                                [position EXCEPT
                                   !.liquidity = @ - fromString(event[2]),
                                   !.withdrawnToken0 = @ + convertTokenToDecimal(
                                       fromString(event[3]),
                                       s.tokens[position.token0].decimals),
                                   !.withdrawnToken1 = @ + convertTokenToDecimal(
                                       fromString(event[4]),
                                       s.tokens[position.token1].decimals)], tx), tx))

handleCollect(s, tx, event) ==
    LET got == getPosition(s, fromString(event[1]), tx)
    IN  IF got.reverted THEN Abort(got.store)
        ELSE IF got.position = <<>> THEN Return(got.store)
        ELSE IF got.position[1].pool = TempFixPool THEN Return(got.store)
        ELSE LET position == got.position[1]
             IN  \* Token.load(position.token0)!
                 IF position.token0 \notin DOMAIN s.tokens THEN Abort(got.store)
                 ELSE LET amount0 == convertTokenToDecimal(fromString(event[3]),
                                         s.tokens[position.token0].decimals)
                      IN  Return(SavePosition(got.store,
                              updateFeeVars(
                                [position EXCEPT !.collectedFeesToken0 = @ + amount0,
                                                 !.collectedFeesToken1 = @ + amount0],
                                tx), tx))

\* a handleTransfer that also resets the fee growth of the position
handleTransfer_refreshed(s, tx, event) ==
    LET got == getPosition(s, fromString(event[3]), tx)
    IN  IF got.reverted THEN Abort(got.store)
        ELSE IF got.position = <<>> THEN Return(got.store)
        ELSE Return(SavePosition(got.store,
                [got.position[1] EXCEPT !.owner = event[2],
                                        !.feeGrowthInside0LastX128 = 0,
                                        !.feeGrowthInside1LastX128 = 0], tx))

handleTransfer(s, tx, event) ==
    LET got == getPosition(s, fromString(event[3]), tx)
    IN  IF got.reverted THEN Abort(got.store)
        ELSE IF got.position = <<>> THEN Return(got.store)
        ELSE Return(SavePosition(got.store, [got.position[1] EXCEPT !.owner = event[2]], tx))

\* a new Token that starts with one unit locked
NewToken_locked(decimals) ==
    [decimals |-> decimals, derivedETH |-> ZERO_BD, volume |-> 0, volumeUSD |-> ZERO_BD,
     feesUSD |-> ZERO_BD, totalValueLocked |-> 1, totalValueLockedUSD |-> ZERO_BD,
     txCount |-> 0, poolCount |-> 0, whitelistPools |-> <<>>]

\* new Token(address) with the values fetched and the aggregates at zero
NewToken(decimals) ==
    [decimals |-> decimals, derivedETH |-> ZERO_BD, volume |-> 0, volumeUSD |-> ZERO_BD,
     feesUSD |-> ZERO_BD, totalValueLocked |-> 0, totalValueLockedUSD |-> ZERO_BD,
     txCount |-> 0, poolCount |-> 0, whitelistPools |-> <<>>]

\* the saves of handlePoolCreated with token1.save() left out
SavePool_token0Only(s, poolAddress, pool, id0, token0, id1, token1, factory) ==
    [s EXCEPT !.pools = Save(@, poolAddress, pool),
              !.templates = Append(@, poolAddress),
              !.tokens = Save(@, id0, token0),
              !.factory = Save(@, FACTORY_ADDRESS, factory)]

\* pool.save(), PoolTemplate.create(poolAddress), token0.save(), token1.save()
\* and factory.save() at the end of handlePoolCreated
SavePool(s, poolAddress, pool, id0, token0, id1, token1, factory) ==
    [s EXCEPT !.pools = Save(@, poolAddress, pool),
              !.templates = Append(@, poolAddress),
              !.tokens = Save(Save(@, id0, token0), id1, token1),
              !.factory = Save(@, FACTORY_ADDRESS, factory)]

\* a handlePoolCreated that saves the incremented poolCount before it bails out
handlePoolCreated_countSaved(s, tx, event) ==
    LET poolAddress == event[5]
        factory == IF FACTORY_ADDRESS \in DOMAIN s.factory THEN s.factory[FACTORY_ADDRESS]
                   ELSE [poolCount |-> 0, txCount |-> 0, totalVolumeUSD |-> ZERO_BD,
                         totalFeesUSD |-> ZERO_BD, totalValueLockedETH |-> ZERO_BD,
                         totalValueLockedUSD |-> ZERO_BD]
        \* a new factory comes with bundle.save()
        s1 == IF FACTORY_ADDRESS \in DOMAIN s.factory THEN s
              ELSE [s EXCEPT !.bundle = Save(@, BundleId, [ethPriceUSD |-> ZERO_BD])]
        known0 == event[1] \in DOMAIN s.tokens
        known1 == event[2] \in DOMAIN s.tokens
    IN  IF poolAddress = TempFixPool THEN Return(s)
        \* bail if we couldn't figure out the decimals
        ELSE IF \/ ~known0 /\ fetchTokenDecimals(event[1]) = <<>>
                \/ ~known1 /\ fetchTokenDecimals(event[2]) = <<>>
        THEN Return([s1 EXCEPT !.factory = Save(@, FACTORY_ADDRESS,
                                                [factory EXCEPT !.poolCount = @ + 1])])
        ELSE
        LET token0 == IF known0 THEN s.tokens[event[1]]
                      ELSE NewToken(fetchTokenDecimals(event[1])[1])
            token1 == IF known1 THEN s.tokens[event[2]]
                      ELSE NewToken(fetchTokenDecimals(event[2])[1])
            listed1 == IF event[1] \in WHITELIST_TOKENS
                       THEN [token1 EXCEPT !.whitelistPools = Append(@, poolAddress)]
                       ELSE token1
            listed0 == IF event[2] \in WHITELIST_TOKENS
                       THEN [token0 EXCEPT !.whitelistPools = Append(@, poolAddress)]
                       ELSE token0
            pool == [token0 |-> event[1], token1 |-> event[2],
                     feeTier |-> fromString(event[3]),
                     createdAtBlockNumber |-> tx.blockNumber,
                     \* new Pool() sets no tick: save() keeps the one stored
                     tick |-> IF poolAddress \in DOMAIN s.pools
                              THEN s.pools[poolAddress].tick ELSE <<>>,
                     sqrtPrice |-> 0, liquidity |-> 0, txCount |-> 0,
                     token0Price |-> ZERO_BD, token1Price |-> ZERO_BD,
                     totalValueLockedToken0 |-> 0, totalValueLockedToken1 |-> 0,
                     totalValueLockedETH |-> ZERO_BD, totalValueLockedUSD |-> ZERO_BD,
                     volumeToken0 |-> 0, volumeToken1 |-> 0,
                     volumeUSD |-> ZERO_BD, feesUSD |-> ZERO_BD,
                     feeGrowthGlobal0X128 |-> 0, feeGrowthGlobal1X128 |-> 0]
        IN  Return(SavePool(s1, poolAddress, pool, event[1], listed0, event[2], listed1,
                            [factory EXCEPT !.poolCount = @ + 1]))

\* a handlePoolCreated that never loads the tokens: it creates them anew
handlePoolCreated_tokensAnew(s, tx, event) ==
    LET poolAddress == event[5]
        factory == IF FACTORY_ADDRESS \in DOMAIN s.factory THEN s.factory[FACTORY_ADDRESS]
                   ELSE [poolCount |-> 0, txCount |-> 0, totalVolumeUSD |-> ZERO_BD,
                         totalFeesUSD |-> ZERO_BD, totalValueLockedETH |-> ZERO_BD,
                         totalValueLockedUSD |-> ZERO_BD]
        \* a new factory comes with bundle.save()
        s1 == IF FACTORY_ADDRESS \in DOMAIN s.factory THEN s
              ELSE [s EXCEPT !.bundle = Save(@, BundleId, [ethPriceUSD |-> ZERO_BD])]
        known0 == FALSE
        known1 == FALSE
    IN  IF poolAddress = TempFixPool THEN Return(s)
        \* bail if we couldn't figure out the decimals
        ELSE IF ~known0 /\ fetchTokenDecimals(event[1]) = <<>> THEN Return(s1)
        ELSE IF ~known1 /\ fetchTokenDecimals(event[2]) = <<>> THEN Return(s1)
        ELSE
        LET token0 == IF known0 THEN s.tokens[event[1]]
                      ELSE NewToken(fetchTokenDecimals(event[1])[1])
            token1 == IF known1 THEN s.tokens[event[2]]
                      ELSE NewToken(fetchTokenDecimals(event[2])[1])
            listed1 == IF event[1] \in WHITELIST_TOKENS
                       THEN [token1 EXCEPT !.whitelistPools = Append(@, poolAddress)]
                       ELSE token1
            listed0 == IF event[2] \in WHITELIST_TOKENS
                       THEN [token0 EXCEPT !.whitelistPools = Append(@, poolAddress)]
                       ELSE token0
            pool == [token0 |-> event[1], token1 |-> event[2],
                     feeTier |-> fromString(event[3]),
                     createdAtBlockNumber |-> tx.blockNumber,
                     \* new Pool() sets no tick: save() keeps the one stored
                     tick |-> IF poolAddress \in DOMAIN s.pools
                              THEN s.pools[poolAddress].tick ELSE <<>>,
                     sqrtPrice |-> 0, liquidity |-> 0, txCount |-> 0,
                     token0Price |-> ZERO_BD, token1Price |-> ZERO_BD,
                     totalValueLockedToken0 |-> 0, totalValueLockedToken1 |-> 0,
                     totalValueLockedETH |-> ZERO_BD, totalValueLockedUSD |-> ZERO_BD,
                     volumeToken0 |-> 0, volumeToken1 |-> 0,
                     volumeUSD |-> ZERO_BD, feesUSD |-> ZERO_BD,
                     feeGrowthGlobal0X128 |-> 0, feeGrowthGlobal1X128 |-> 0]
        IN  Return(SavePool(s1, poolAddress, pool, event[1], listed0, event[2], listed1,
                            [factory EXCEPT !.poolCount = @ + 1]))

handlePoolCreated(s, tx, event) ==
    LET poolAddress == event[5]
        factory == IF FACTORY_ADDRESS \in DOMAIN s.factory THEN s.factory[FACTORY_ADDRESS]
                   ELSE [poolCount |-> 0, txCount |-> 0, totalVolumeUSD |-> ZERO_BD,
                         totalFeesUSD |-> ZERO_BD, totalValueLockedETH |-> ZERO_BD,
                         totalValueLockedUSD |-> ZERO_BD]
        \* a new factory comes with bundle.save()
        s1 == IF FACTORY_ADDRESS \in DOMAIN s.factory THEN s
              ELSE [s EXCEPT !.bundle = Save(@, BundleId, [ethPriceUSD |-> ZERO_BD])]
        known0 == event[1] \in DOMAIN s.tokens
        known1 == event[2] \in DOMAIN s.tokens
    IN  IF poolAddress = TempFixPool THEN Return(s)
        \* bail if we couldn't figure out the decimals
        ELSE IF ~known0 /\ fetchTokenDecimals(event[1]) = <<>> THEN Return(s1)
        ELSE IF ~known1 /\ fetchTokenDecimals(event[2]) = <<>> THEN Return(s1)
        ELSE
        LET token0 == IF known0 THEN s.tokens[event[1]]
                      ELSE NewToken(fetchTokenDecimals(event[1])[1])
            token1 == IF known1 THEN s.tokens[event[2]]
                      ELSE NewToken(fetchTokenDecimals(event[2])[1])
            listed1 == IF event[1] \in WHITELIST_TOKENS
                       THEN [token1 EXCEPT !.whitelistPools = Append(@, poolAddress)]
                       ELSE token1
            listed0 == IF event[2] \in WHITELIST_TOKENS
                       THEN [token0 EXCEPT !.whitelistPools = Append(@, poolAddress)]
                       ELSE token0
            pool == [token0 |-> event[1], token1 |-> event[2],
                     feeTier |-> fromString(event[3]),
                     createdAtBlockNumber |-> tx.blockNumber,
                     \* new Pool() sets no tick: save() keeps the one stored
                     tick |-> IF poolAddress \in DOMAIN s.pools
                              THEN s.pools[poolAddress].tick ELSE <<>>,
                     sqrtPrice |-> 0, liquidity |-> 0, txCount |-> 0,
                     token0Price |-> ZERO_BD, token1Price |-> ZERO_BD,
                     totalValueLockedToken0 |-> 0, totalValueLockedToken1 |-> 0,
                     totalValueLockedETH |-> ZERO_BD, totalValueLockedUSD |-> ZERO_BD,
                     volumeToken0 |-> 0, volumeToken1 |-> 0,
                     volumeUSD |-> ZERO_BD, feesUSD |-> ZERO_BD,
                     feeGrowthGlobal0X128 |-> 0, feeGrowthGlobal1X128 |-> 0]
        IN  Return(SavePool(s1, poolAddress, pool, event[1], listed0, event[2], listed1,
                            [factory EXCEPT !.poolCount = @ + 1]))
----------------------------------------------------------------------------
(* The blocks delivered to handleBlock *)

\* the most events in the block that follows the history
MaxEvents == 2

EventType ==
    [POOL_CREATED |-> 0, INCREASE_LIQUIDITY |-> 1, DECREASE_LIQUIDITY |-> 2, COLLECT |-> 3,
     TRANSFER |-> 4, INITIALIZE |-> 5, SWAP |-> 6, MINT |-> 7, BURN |-> 8, FLASH |-> 9]

\* An Event of the given type from the contract at address, with the payload
\* bytes as the value of its Any; all in transaction 1 of block 1.
Header(type, address, value) ==
    <<<<>>, <<0, 0, 0, type>>, <<<<>>, value>>, address, <<1>>, <<49>>, <<1>>,
      <<0, 0, 0, 1>>, <<49>>>>

EventOf(type, address, class, payload) == Header(type, address, encodeU8Array(class, payload))

PoolCreated1 ==
    EventOf(EventType.POOL_CREATED, FACTORY_ADDRESS, "PoolCreated",
            <<<<97>>, <<98>>, <<49, 48, 48>>, <<49>>, <<49>>>>)

InitializePayload == <<<<49>>, <<49>>>>

\* an Initialize at tick 5, above the range of MintPayload
InitializeAbove == EventOf(EventType.INITIALIZE, <<49>>, "Initialize", <<<<49>>, <<53>>>>)

MintPayload ==
    <<<<115>>, <<111>>, <<48>>, <<50>>, <<51>>, <<49>>, <<49>>, <<0, 0, 0, 1>>, <<102>>>>

\* the Burn of what MintPayload minted
BurnPayload == <<<<111>>, <<48>>, <<50>>, <<51>>, <<49>>, <<49>>, <<0, 0, 0, 2>>, <<102>>>>

\* a Swap of 2 of token0 for 1 of token1 that moves the price to 2 and the
\* tick to 2
SwapPayload ==
    <<<<115>>, <<114>>, <<50>>, <<45, 49>>, <<50>>, <<51>>, <<50>>, <<0, 0, 0, 3>>, <<102>>>>

\* the creation of the pool handleSwap leaves out, and a Swap on it
PoolCreated9 ==
    EventOf(EventType.POOL_CREATED, FACTORY_ADDRESS, "PoolCreated",
            <<<<97>>, <<98>>, <<49, 48, 48>>, <<49>>, HotFixPool>>)

Swap9 == EventOf(EventType.SWAP, HotFixPool, "Swap", SwapPayload)

\* the creation of a pool whose token0 ("z") resp. token1 answers no decimals
PoolCreatedZ0 ==
    EventOf(EventType.POOL_CREATED, FACTORY_ADDRESS, "PoolCreated",
            <<<<122>>, <<98>>, <<49, 48, 48>>, <<49>>, <<51>>>>)

PoolCreatedZ1 ==
    EventOf(EventType.POOL_CREATED, FACTORY_ADDRESS, "PoolCreated",
            <<<<99>>, <<122>>, <<49, 48, 48>>, <<49>>, <<51>>>>)

\* the events of a pool: Initialize, Mint, Burn, Swap and Flash at address
PoolEvents(address) ==
    {EventOf(EventType.INITIALIZE, address, "Initialize", InitializePayload),
     EventOf(EventType.MINT, address, "Mint", MintPayload),
     EventOf(EventType.BURN, address, "Burn", BurnPayload),
     EventOf(EventType.SWAP, address, "Swap", SwapPayload),
     EventOf(EventType.FLASH, address, "Flash", Default("Flash"))}

\* the events of the position manager for a token id
Liquidity(type, class, tokenId) ==
    EventOf(type, <<78>>, class, <<tokenId, <<49>>, <<49>>, <<49>>>>)

Transfer(tokenId) ==
    EventOf(EventType.TRANSFER, <<78>>, "Transfer", <<<<48>>, <<117>>, tokenId>>)

\* an event of a type the dispatcher does not know
Unknown == Header(10, <<49>>, <<>>)

\* a Mint of pool "1" whose payload ends inside its first field
BadMint == Header(EventType.MINT, <<49>>, <<10, 5, 97>>)

\* The events of the block that follows the history: the creation of pool
\* "1", two creations of pool "3" that bail out, the creation of pool "9"
\* and a Swap on it, the events of pool "1" and
\* of "2" (never created), a position event, an event of unknown type and one
\* with a payload that is not decodable.
Menu ==
    {PoolCreated1, PoolCreatedZ0, PoolCreatedZ1, PoolCreated9, Swap9, InitializeAbove,
     Unknown, BadMint,
     Liquidity(EventType.INCREASE_LIQUIDITY, "IncreaseLiquidity", <<49>>)}
    \cup (PoolEvents(<<49>>) \ {EventOf(EventType.FLASH, <<49>>, "Flash", Default("Flash"))})
    \cup PoolEvents(<<50>>)

Batches ==
    {encodeU8Array("Events", <<q>>) : q \in UNION {[1..n -> Menu] : n \in 0..MaxEvents}}
    \cup {SubSeq(encodeU8Array("Events", <<<<e>>>>), 1,
                 Len(encodeU8Array("Events", <<<<e>>>>)) - 1) : e \in Menu}

\* The blocks before: none, or the creation and initialisation of pool "1"
\* and then a block with a Mint, a Flash and events of positions 1, 2 (in
\* the pool left out) and 3 (unknown to the position manager).
Histories ==
    {<<>>,
     <<encodeU8Array("Events", <<<<PoolCreated1,
            EventOf(EventType.INITIALIZE, <<49>>, "Initialize", InitializePayload)>>>>),
       encodeU8Array("Events", <<<<
            EventOf(EventType.MINT, <<49>>, "Mint", MintPayload),
            Liquidity(EventType.INCREASE_LIQUIDITY, "IncreaseLiquidity", <<49>>),
            Liquidity(EventType.DECREASE_LIQUIDITY, "DecreaseLiquidity", <<49>>),
            Liquidity(EventType.COLLECT, "Collect", <<49>>),
            Transfer(<<49>>),
            EventOf(EventType.FLASH, <<49>>, "Flash", Default("Flash")),
            Liquidity(EventType.INCREASE_LIQUIDITY, "IncreaseLiquidity", <<50>>),
            Transfer(<<51>>)>>>>)>>}

----------------------------------------------------------------------------
(* handleBlock: Events.decode, then the callback of forEach, event by event *)

\* the handler ran for events[idx]: its saves are in the store, and the
\* loop goes on unless the runtime aborted it
Handled(name, r) ==
    /\ store' = r.store
    /\ calls' = Append(calls, <<name, idx>>)
    /\ IF r.st = "ok"
       THEN /\ idx' = idx + 1
            /\ pc' = IF idx = Len(events) THEN "idle" ELSE "dispatch"
            /\ failure' = failure
       ELSE /\ idx' = idx
            /\ pc' = "failed"
            /\ failure' = "abort"
    /\ UNCHANGED <<store0, events, chain, free, probe, outcome>>

\* the payload of events[idx] could not be decoded: the error ends handleBlock
PayloadError ==
    /\ pc' = "failed"
    /\ failure' = "decode"
    /\ UNCHANGED <<store, store0, events, idx, calls, chain, free, probe, outcome>>

\* the case of the switch taken for events[idx]
Case(type) == pc = "dispatch" /\ events[idx][2] = <<0, 0, 0, type>>

Payload(class) == decode(class, events[idx][3][2])

TxDetails == txDetailsFromHeader(events[idx])

handleBlock ==
    /\ pc = "idle"
    /\ \E blockBytes \in IF chain # <<>> THEN {Head(chain)}
                         ELSE IF free THEN Batches ELSE {} :
         LET decoded == decode("Events", blockBytes)
         IN  /\ chain' = IF chain # <<>> THEN Tail(chain) ELSE chain
             /\ free' = (chain # <<>> /\ free)
             /\ store0' = store
             /\ calls' = <<>>
             /\ idx' = 1
             /\ IF decoded.st = "ok"
                THEN /\ events' = decoded.val[1]
                     /\ pc' = IF decoded.val[1] = <<>> THEN "idle" ELSE "dispatch"
                     /\ failure' = failure
                ELSE /\ events' = <<>>
                     /\ pc' = "failed"
                     /\ failure' = "decode"
    /\ UNCHANGED <<store, probe, outcome>>

PoolCreatedCase ==
    /\ Case(EventType.POOL_CREATED)
    /\ IF Payload("PoolCreated").st # "ok" THEN PayloadError
       ELSE Handled("handlePoolCreated",
                    handlePoolCreated(store, TxDetails, Payload("PoolCreated").val))

IncreaseLiquidityCase ==
    /\ Case(EventType.INCREASE_LIQUIDITY)
    /\ IF Payload("IncreaseLiquidity").st # "ok" THEN PayloadError
       ELSE Handled("handleIncreaseLiquidity",
                    handleIncreaseLiquidity(store, TxDetails,
                                            Payload("IncreaseLiquidity").val))

DecreaseLiquidityCase ==
    /\ Case(EventType.DECREASE_LIQUIDITY)
    /\ IF Payload("DecreaseLiquidity").st # "ok" THEN PayloadError
       ELSE Handled("handleDecreaseLiquidity",
                    handleDecreaseLiquidity(store, TxDetails,
                                            Payload("DecreaseLiquidity").val))

CollectCase ==
    /\ Case(EventType.COLLECT)
    /\ IF Payload("Collect").st # "ok" THEN PayloadError
       ELSE Handled("handleCollect", handleCollect(store, TxDetails, Payload("Collect").val))

TransferCase ==
    /\ Case(EventType.TRANSFER)
    /\ IF Payload("Transfer").st # "ok" THEN PayloadError
       ELSE Handled("handleTransfer",
                    handleTransfer(store, TxDetails, Payload("Transfer").val))

InitializeCase ==
    /\ Case(EventType.INITIALIZE)
    /\ IF Payload("Initialize").st # "ok" THEN PayloadError
       ELSE Handled("handleInitialize",
                    handleInitialize(store, TxDetails, Payload("Initialize").val))

SwapCase ==
    /\ Case(EventType.SWAP)
    /\ IF Payload("Swap").st # "ok" THEN PayloadError
       ELSE Handled("handleSwap", handleSwap(store, TxDetails, Payload("Swap").val))

MintCase ==
    /\ Case(EventType.MINT)
    /\ IF Payload("Mint").st # "ok" THEN PayloadError
       ELSE Handled("handleMint", handleMint(store, TxDetails, Payload("Mint").val))

BurnCase ==
    /\ Case(EventType.BURN)
    /\ IF Payload("Burn").st # "ok" THEN PayloadError
       ELSE Handled("handleBurn", handleBurn(store, TxDetails, Payload("Burn").val))

\* the payload of a Flash is not decoded
FlashCase ==
    /\ Case(EventType.FLASH)
    /\ Handled("handleFlash", handleFlash(store, TxDetails))

\* no case of the switch: the callback returns
NoCase ==
    /\ pc = "dispatch"
    /\ \A type \in 0..9 : events[idx][2] # <<0, 0, 0, type>>
    /\ idx' = idx + 1
    /\ pc' = IF idx = Len(events) THEN "idle" ELSE "dispatch"
    /\ UNCHANGED <<store, store0, events, calls, failure, chain, free, probe, outcome>>

----------------------------------------------------------------------------
(* The tick sweep of handleSwap on drawn ticks *)

\* old and new ticks: below zero, multiples of the spacings and others, and
\* 6000, which is 100 steps of 60 above 0
SweepTicks == {-120, -7, 0, 60, 100, 430, 6000}

FeeTiers == {100, 500, 3000, 10000}

SweepProbes ==
    {[kind |-> "sweep", oldTick |-> o, newTick |-> n, feeTier |-> f] :
        o \in SweepTicks, n \in SweepTicks, f \in FeeTiers}

\* the sweep of a Swap that moves a pool from oldTick to newTick
RunSweep ==
    /\ probe.kind = "sweep"
    /\ outcome.kind = "none"
    /\ outcome' = [kind |-> "sweep",
                   current |-> Sweep(probe.oldTick, probe.newTick, probe.feeTier).current,
                   crossed |-> Sweep(probe.oldTick, probe.newTick, probe.feeTier).crossed]
    /\ UNCHANGED <<probe, engineVars>>

InitSweep ==
    /\ probe \in SweepProbes
    /\ outcome = [kind |-> "none"]
    /\ store = EmptyStore
    /\ store0 = EmptyStore
    /\ pc = "off"
    /\ events = <<>>
    /\ idx = 1
    /\ calls = <<>>
    /\ failure = "none"
    /\ chain = <<>>
    /\ free = FALSE

NextSweep == RunSweep

SpecSweep == InitSweep /\ [][NextSweep]_vars

----------------------------------------------------------------------------
(* The position manager and the contract reads: blocks 2 and 3 after a     *)
(* block 1 that creates and initialises pool "1", opens position 1 and     *)
(* transfers position 2                                                    *)

\* the event in another block
At(event, block) == [event EXCEPT ![8] = <<0, 0, 0, block>>]

\* a Collect of position 1 whose amount1 is not its amount0
CollectUneven ==
    EventOf(EventType.COLLECT, <<78>>, "Collect", <<<<49>>, <<49>>, <<49>>, <<50>>>>)

\* the creation of the pool whose contract reverts
PoolCreated4 ==
    EventOf(EventType.POOL_CREATED, FACTORY_ADDRESS, "PoolCreated",
            <<<<97>>, <<98>>, <<49, 48, 48>>, <<49>>, RevertingPool>>)

\* The events of block 2: those of position 1, of position 2 (in the pool
\* left out), of position 3 (positions() reverts) and of position 5 (getPool
\* reverts), a Flash on pool "1", and the creation of pool "4" with a Flash
\* and a Mint on it.
EarlyMenu ==
    {At(e, 2) : e \in
        {Liquidity(EventType.INCREASE_LIQUIDITY, "IncreaseLiquidity", <<49>>),
         Liquidity(EventType.DECREASE_LIQUIDITY, "DecreaseLiquidity", <<49>>),
         CollectUneven,
         Transfer(<<49>>),
         Liquidity(EventType.INCREASE_LIQUIDITY, "IncreaseLiquidity", <<50>>),
         Liquidity(EventType.COLLECT, "Collect", <<50>>),
         Liquidity(EventType.DECREASE_LIQUIDITY, "DecreaseLiquidity", <<51>>),
         Liquidity(EventType.INCREASE_LIQUIDITY, "IncreaseLiquidity", <<53>>),
         EventOf(EventType.FLASH, <<49>>, "Flash", Default("Flash")),
         PoolCreated4,
         EventOf(EventType.FLASH, RevertingPool, "Flash", Default("Flash")),
         EventOf(EventType.MINT, RevertingPool, "Mint", MintPayload)}}

\* the events of block 3, when the positions 1 and 2 are burnt
LateMenu ==
    {At(e, 3) : e \in
        {Liquidity(EventType.INCREASE_LIQUIDITY, "IncreaseLiquidity", <<49>>),
         Liquidity(EventType.INCREASE_LIQUIDITY, "IncreaseLiquidity", <<50>>),
         Liquidity(EventType.DECREASE_LIQUIDITY, "DecreaseLiquidity", <<49>>),
         CollectUneven}}

\* block 1, and then block 2 or block 3 with up to MaxEvents events
CallHistories ==
    {<<encodeU8Array("Events", <<<<PoolCreated1,
            EventOf(EventType.INITIALIZE, <<49>>, "Initialize", InitializePayload),
            Liquidity(EventType.INCREASE_LIQUIDITY, "IncreaseLiquidity", <<49>>),
            Transfer(<<50>>)>>>>),
       encodeU8Array("Events", <<q>>)>> :
        q \in UNION {[1..n -> EarlyMenu] \cup [1..n -> LateMenu] : n \in 0..MaxEvents}}

InitCalls ==
    /\ probe = [kind |-> "none"]
    /\ outcome = [kind |-> "none"]
    /\ store = EmptyStore
    /\ store0 = EmptyStore
    /\ pc = "idle"
    /\ events = <<>>
    /\ idx = 1
    /\ calls = <<>>
    /\ failure = "none"
    /\ chain \in CallHistories
    /\ free = FALSE

NextCalls ==
    \/ handleBlock
    \/ PoolCreatedCase
    \/ IncreaseLiquidityCase
    \/ DecreaseLiquidityCase
    \/ CollectCase
    \/ TransferCase
    \/ InitializeCase
    \/ MintCase
    \/ FlashCase

SpecCalls == InitCalls /\ [][NextCalls]_vars

-----------------------------------------------------------------------------
(* The tick ledger and the records: Mints and Burns over two ranges of     *)
(* pool "1" that share the tick 3, and a Mint on pool "9", in the block    *)
(* after the one that creates the two pools                                *)

MintOf(tickLower, tickUpper, amount) ==
    EventOf(EventType.MINT, <<49>>, "Mint",
            <<<<115>>, <<111>>, tickLower, tickUpper, amount, <<49>>, <<49>>,
              <<0, 0, 0, 1>>, <<102>>>>)

BurnOf(tickLower, tickUpper, amount) ==
    EventOf(EventType.BURN, <<49>>, "Burn",
            <<<<111>>, tickLower, tickUpper, amount, <<49>>, <<49>>, <<0, 0, 0, 2>>, <<102>>>>)

\* a Mint on the other pool, in the same transaction as every other event
Mint9 == EventOf(EventType.MINT, HotFixPool, "Mint", MintPayload)

TickMenu ==
    {MintOf(<<50>>, <<51>>, <<49>>), MintOf(<<51>>, <<53>>, <<50>>),
     BurnOf(<<50>>, <<51>>, <<49>>), BurnOf(<<51>>, <<53>>, <<49>>), Mint9}

\* block 1, and then a block of up to MaxEvents + 1 Mints and Burns
TickHistories ==
    {<<encodeU8Array("Events", <<<<PoolCreated1, PoolCreated9,
            EventOf(EventType.INITIALIZE, <<49>>, "Initialize", InitializePayload)>>>>),
       encodeU8Array("Events", <<q>>)>> :
        q \in UNION {[1..n -> TickMenu] : n \in 0..(MaxEvents + 1)}}

InitTicks ==
    /\ probe = [kind |-> "none"]
    /\ outcome = [kind |-> "none"]
    /\ store = EmptyStore
    /\ store0 = EmptyStore
    /\ pc = "idle"
    /\ events = <<>>
    /\ idx = 1
    /\ calls = <<>>
    /\ failure = "none"
    /\ chain \in TickHistories
    /\ free = FALSE

NextTicks ==
    \/ handleBlock
    \/ PoolCreatedCase
    \/ InitializeCase
    \/ MintCase
    \/ BurnCase

SpecTicks == InitTicks /\ [][NextTicks]_vars

----------------------------------------------------------------------------
(* The specifications: the codec operations on drawn inputs, and the       *)
(* processing of blocks from the empty store                               *)

InitCodec ==
    /\ probe \in Probes
    /\ outcome = [kind |-> "none"]
    /\ store = EmptyStore
    /\ store0 = EmptyStore
    /\ pc = "off"
    /\ events = <<>>
    /\ idx = 1
    /\ calls = <<>>
    /\ failure = "none"
    /\ chain = <<>>
    /\ free = FALSE

NextCodec ==
    \/ RunVarint
    \/ RunZigZag
    \/ RunMessage
    \/ RunUnknown
    \/ RunLength
    \/ RunDecode

SpecCodec == InitCodec /\ [][NextCodec]_vars

Init ==
    /\ probe = [kind |-> "none"]
    /\ outcome = [kind |-> "none"]
    /\ store = EmptyStore
    /\ store0 = EmptyStore
    /\ pc = "idle"
    /\ events = <<>>
    /\ idx = 1
    /\ calls = <<>>
    /\ failure = "none"
    /\ chain \in Histories
    /\ free = TRUE

Next ==
    \/ handleBlock
    \/ PoolCreatedCase
    \/ IncreaseLiquidityCase
    \/ DecreaseLiquidityCase
    \/ CollectCase
    \/ TransferCase
    \/ InitializeCase
    \/ SwapCase
    \/ MintCase
    \/ BurnCase
    \/ FlashCase
    \/ NoCase

Spec == Init /\ [][Next]_vars

----------------------------------------------------------------------------
(* The claims about the codec *)

\* C1: for every message type and message m, decode(encode(m)) = m, field for
\* field, fields at their default value included.
C1_RoundTrip ==
    outcome.kind = "message" => (outcome.st = "ok" /\ outcome.val = probe.m)

\* C2: Decoder.varint() on the bytes of Encoder.varint64(n) returns n and
\* advances the cursor by the number of bytes written (1..10).
C2_VarintRoundTrip ==
    outcome.kind = "varint" =>
        /\ outcome.st = "ok"
        /\ outcome.val = probe.n
        /\ outcome.pos = Len(outcome.bytes)
        /\ Len(outcome.bytes) \in 1..10

\* C3: Decoder.sint32() on the bytes of Encoder.sint32(v) returns v for every
\* i32 v, and Decoder.sint64() on those of Encoder.sint64(v) for every i64 v.
C3_ZigZagRoundTrip ==
    outcome.kind = "zigzag" => (outcome.st = "ok" /\ outcome.val = probe.v)

\* C4: m.size() is the number of bytes m.encodeU8Array() produces, and every
\* length prefix written equals the number of payload bytes after it.
C4_SizeExact ==
    outcome.kind = "message" =>
        /\ outcome.size = Len(outcome.bytes)
        /\ \A n \in 1..Len(outcome.frames) : outcome.frames[n][1] = outcome.frames[n][2]

\* C5: a well-formed field with an unknown number, spliced into an encoded
\* message, is skipped: the decoded message is the one decoded without it and
\* the cursor ends at the end of the buffer.
C5_UnknownSkipped ==
    outcome.kind = "unknown" =>
        /\ outcome.st = "ok"
        /\ outcome.val = outcome.plain
        /\ outcome.pos = Len(outcome.bytes)

\* C5 happens: a group holding a field and a group, spliced in between the
\* fields of an Event with every field set, is skipped and the Event decoded.
C5_Witness ==
    /\ outcome.kind = "unknown"
    /\ probe.type = "Event"
    /\ probe.at = 3
    /\ probe.field = <<123, 120, 1, 123, 125, 0, 0, 0, 0, 124, 124>>
    /\ outcome.st = "ok"
    /\ outcome.val = probe.m
    /\ outcome.pos = Len(outcome.bytes)

\* C6: a length-delimited read whose length prefix exceeds the bytes that
\* remain fails with a decode error and returns no value.
C6_OverlongPrefixFails ==
    outcome.kind = "length" => outcome.st = "error"

----------------------------------------------------------------------------
(* The claims about the dispatcher and the handlers *)

Handlers ==
    <<"handlePoolCreated", "handleIncreaseLiquidity", "handleDecreaseLiquidity",
      "handleCollect", "handleTransfer", "handleInitialize", "handleSwap", "handleMint",
      "handleBurn", "handleFlash">>

\* the type of the event is one of the ten discriminants
Known(event) == \E type \in 0..9 : event[2] = <<0, 0, 0, type>>

\* the invocations due for the first n events of the batch: for each event
\* of a known type, in order, the handler of that type
RECURSIVE Invocations(_)
Invocations(n) ==
    IF n = 0 THEN <<>>
    ELSE Invocations(n - 1)
         \o (IF Known(events[n]) THEN <<<<Handlers[events[n][2][4] + 1], n>>>> ELSE <<>>)

\* C7: handleBlock invokes, for each event of the decoded batch in encoded
\* order, exactly the handler of its type, and none for an event of another
\* type: while the loop is at event idx the invocations made are those due
\* for the events before it, and once handleBlock is over (other than by a
\* decode error) they are those due for the whole batch.
C7_DispatchedOnceInOrder ==
    failure # "decode" =>
        calls = Invocations(IF pc = "dispatch" THEN idx - 1 ELSE Len(events))

\* C8: when handleBlock fails with a decode error, the entity store is the
\* store before the call.
C8_DecodeErrorLeavesStore ==
    (pc = "failed" /\ failure = "decode") => store = store0

\* C9: no handler raises on a missing referenced entity: handleBlock is never
\* ended by a handler that the runtime aborted.
C9_NoHandlerRaises == failure # "abort"

\* C10: an Initialize, Mint, Burn, Swap or Flash event whose contract address
\* is not the id of a stored Pool leaves the whole entity store unchanged.
C10_ForeignPoolEventIgnored ==
    [][(/\ pc = "dispatch"
        /\ \E type \in {EventType.INITIALIZE, EventType.SWAP, EventType.MINT,
                         EventType.BURN, EventType.FLASH} :
              events[idx][2] = <<0, 0, 0, type>>
        /\ events[idx][4] \notin DOMAIN store.pools)
       => store' = store]_vars

\* C10 happens: with pools in the store, the last handler called was one of
\* the five, for an event of a contract that is not a stored pool, and the
\* store is the one before the block.
C10_Witness ==
    /\ store.pools # EmptyMap
    /\ store = store0
    /\ calls # <<>>
    /\ calls[Len(calls)][1] \in {"handleInitialize", "handleSwap", "handleMint", "handleBurn",
                                 "handleFlash"}
    /\ events[calls[Len(calls)][2]][4] \notin DOMAIN store.pools

----------------------------------------------------------------------------
(* The claims about the factory and the pool handlers *)

\* how often x occurs in the sequence q
Occurrences(q, x) == Cardinality({i \in DOMAIN q : q[i] = x})

\* the PoolCreated about to be handled, once decoded
Creation == Payload("PoolCreated").val

Creating == Case(EventType.POOL_CREATED) /\ Payload("PoolCreated").st = "ok"

\* C11: handling a PoolCreated for a pool address that is already stored as
\* a Pool leaves Factory.poolCount and the Pool's accumulated fields as they
\* were and adds no second entry for the pool to any Token's whitelistPools.
C11_PoolCreatedIdempotent ==
    [][(Creating /\ Creation[5] \in DOMAIN store.pools)
       => /\ store'.factory[FACTORY_ADDRESS].poolCount
                = store.factory[FACTORY_ADDRESS].poolCount
          /\ store'.pools[Creation[5]] = store.pools[Creation[5]]
          /\ \A t \in DOMAIN store'.tokens :
                Occurrences(store'.tokens[t].whitelistPools, Creation[5])
                    <= Max(1, IF t \in DOMAIN store.tokens
                              THEN Occurrences(store.tokens[t].whitelistPools,
                                               Creation[5])
                              ELSE 0)]_vars

\* the decimals lookup of the PoolCreated about to be handled fails: a token
\* of the event is not stored and the contract answers no decimals
LookupFails ==
    \/ Creation[1] \notin DOMAIN store.tokens /\ fetchTokenDecimals(Creation[1]) = <<>>
    \/ Creation[2] \notin DOMAIN store.tokens /\ fetchTokenDecimals(Creation[2]) = <<>>

\* C12: a PoolCreated whose decimals lookup fails for token0 or token1 is
\* dropped without a write: the store after the handler is the store before
\* it (no Pool, Token, Factory or Bundle created or changed, no event source
\* registered), also when the Factory does not exist yet.
C12_FailedLookupWritesNothing ==
    [][(Creating /\ LookupFails) => store' = store]_vars

\* the Mint about to be handled on a stored pool, once decoded
Minted == Payload("Mint").val

Minting ==
    /\ Case(EventType.MINT)
    /\ Payload("Mint").st = "ok"
    /\ events[idx][4] \in DOMAIN store.pools

\* C13: a Mint on a known pool adds the minted amount to Pool.liquidity if
\* and only if the pool has a current tick and tickLower <= tick < tickUpper;
\* otherwise (tick outside the range, tick equal to tickUpper, pool never
\* initialised) it leaves Pool.liquidity as it was.
C13_MintActiveLiquidity ==
    [][Minting
       => LET pool == store.pools[events[idx][4]]
              active == /\ pool.tick # <<>>
                        /\ fromString(Minted[3]) <= pool.tick[1]
                        /\ pool.tick[1] < fromString(Minted[4])
          IN  store'.pools[events[idx][4]].liquidity
                = pool.liquidity + (IF active THEN fromString(Minted[5]) ELSE 0)]_vars

\* the event whose handler was called last
LastEvent == events[calls[Len(calls)][2]]

\* A Swap has moved pool "1" to tick 2, the tickUpper of the Mint handled
\* after it, and the liquidity is still the one the Swap wrote.
C13_Witness ==
    /\ Len(calls) = 2
    /\ calls[1][1] = "handleSwap" /\ calls[2][1] = "handleMint"
    /\ failure = "none"
    /\ events[1][4] = <<49>> /\ events[2][4] = <<49>>
    /\ <<49>> \in DOMAIN store.pools
    /\ store.pools[<<49>>].tick = <<fromString(MintPayload[4])>>
    /\ store.pools[<<49>>].liquidity = fromString(SwapPayload[6])

\* the tick of a pool at an index as stored in s, a tick without liquidity
\* when there is none
TickAt(s, pool, tickIdx) ==
    IF <<pool, tickIdx>> \in DOMAIN s.ticks THEN s.ticks[<<pool, tickIdx>>]
    ELSE [liquidityGross |-> 0, liquidityNet |-> 0]

MintThenBurn ==
    /\ Len(calls) = 2
    /\ calls[1] = <<"handleMint", 1>> /\ calls[2] = <<"handleBurn", 2>>
    /\ events[1][4] = events[2][4]
    /\ events[1][4] \in DOMAIN store0.pools
    /\ LET m == decode("Mint", events[1][3][2]).val
           b == decode("Burn", events[2][3][2]).val
       IN  m[3] = b[2] /\ m[4] = b[3] /\ m[5] = b[4] /\ m[6] = b[5] /\ m[7] = b[6]

\* C15: a Mint followed by the Burn of the same tickLower, tickUpper, amount,
\* amount0 and amount1, with no price change in between, restores
\* Pool.liquidity, Pool.totalValueLockedToken0/1, both Tokens'
\* totalValueLocked and both boundary Ticks' liquidityGross and liquidityNet
\* to what they were before the Mint.
C15_BurnMirrorsMint ==
    MintThenBurn
    => LET a == events[1][4]
           m == decode("Mint", events[1][3][2]).val
           t0 == store0.pools[a].token0
           t1 == store0.pools[a].token1
       IN  /\ store.pools[a].liquidity = store0.pools[a].liquidity
           /\ store.pools[a].totalValueLockedToken0 = store0.pools[a].totalValueLockedToken0
           /\ store.pools[a].totalValueLockedToken1 = store0.pools[a].totalValueLockedToken1
           /\ store.tokens[t0].totalValueLocked = store0.tokens[t0].totalValueLocked
           /\ store.tokens[t1].totalValueLocked = store0.tokens[t1].totalValueLocked
           /\ \A i \in {fromString(m[3]), fromString(m[4])} :
                /\ TickAt(store, a, i).liquidityGross = TickAt(store0, a, i).liquidityGross
                /\ TickAt(store, a, i).liquidityNet = TickAt(store0, a, i).liquidityNet

\* The pair was handled on a pool whose tick lies in the range: the Mint
\* raised the active liquidity and the Burn took it back.
C15_Witness ==
    /\ MintThenBurn
    /\ failure = "none"
    /\ store0.pools[events[1][4]].tick = <<1>>
    /\ store.pools[events[1][4]].txCount = store0.pools[events[1][4]].txCount + 2

\* the steps of tickSpacing from oldTick to newTick, as the cap counts them
NumIters == Abs(probe.oldTick - probe.newTick) \div feeTierToTickSpacing(probe.feeTier)

\* the multiples of m among lo..hi
Multiples(lo, hi, m) == {i \in lo..hi : i % m = 0}

\* C16: for a Swap that moves the tick from oldTick to newTick within the
\* cap, the ticks whose refresh is attempted are the multiples of tickSpacing
\* between oldTick and newTick, with newTick itself when it is a multiple;
\* from 100 to 430 with spacing 60 they are {120, 180, 240, 300, 360, 420}.
C16_SweepVisitsMultiples ==
    (outcome.kind = "sweep" /\ NumIters <= 100)
    => LET refreshed == outcome.current \cup outcome.crossed
           lo == Min(probe.oldTick, probe.newTick)
           hi == Max(probe.oldTick, probe.newTick)
           m == feeTierToTickSpacing(probe.feeTier)
       IN  /\ Multiples(lo + 1, hi - 1, m) \subseteq refreshed
           /\ refreshed \subseteq Multiples(lo, hi, m)
           /\ probe.newTick % m = 0 => probe.newTick \in refreshed
           /\ (probe.oldTick = 100 /\ probe.newTick = 430 /\ m = 60)
                => refreshed = {120, 180, 240, 300, 360, 420}

\* C17: the loops of the sweep attempt at most 100 refreshes in a Swap, and
\* none when the distance needs more than 100 steps.
C17_SweepAtMost100 ==
    outcome.kind = "sweep"
    => /\ Cardinality(outcome.crossed) <= 100
       /\ NumIters > 100 => outcome.crossed = {}

Swapped == Payload("Swap").val

\* the step that handles a decodable Swap on a pool of the store
Swapping ==
    /\ Case(EventType.SWAP)
    /\ Payload("Swap").st = "ok"
    /\ events[idx][4] \in DOMAIN store.pools

\* the decimals-adjusted amount0 and amount1 of the Swap being handled
SwapAmounts ==
    LET pool == store.pools[events[idx][4]]
    IN  <<convertTokenToDecimal(fromString(Swapped[3]), store.tokens[pool.token0].decimals),
          convertTokenToDecimal(fromString(Swapped[4]), store.tokens[pool.token1].decimals)>>

\* the tracked USD volume of the Swap being handled: the combined tracked
\* value at the prices stored before it, divided by 2
TrackedVolumeUSD ==
    LET pool == store.pools[events[idx][4]]
    IN  div(getTrackedAmountUSD(store, Abs(SwapAmounts[1]), pool.token0,
                                store.tokens[pool.token0], Abs(SwapAmounts[2]),
                                pool.token1, store.tokens[pool.token1]),
            toBigDecimal(2))

\* C18: a Swap on a known pool adds the absolute values of the
\* decimals-adjusted amount0 and amount1 to Pool.volumeToken0/1 and to the
\* volume of the two Tokens; it adds the combined tracked value divided by 2
\* to the volumeUSD of the Pool, of both Tokens and of the Factory; and it
\* adds that halved volume times feeTier divided by 1,000,000 to the feesUSD
\* of the Pool, of both Tokens and of the Factory.
C18_SwapVolumeAccounting ==
    [][Swapping
       => LET a == events[idx][4]
              pool == store.pools[a]
              fees == div(times(TrackedVolumeUSD, toBigDecimal(pool.feeTier)),
                          toBigDecimal(1000000))
          IN  /\ store'.pools[a].volumeToken0 = pool.volumeToken0 + Abs(SwapAmounts[1])
              /\ store'.pools[a].volumeToken1 = pool.volumeToken1 + Abs(SwapAmounts[2])
              /\ store'.tokens[pool.token0].volume
                    = store.tokens[pool.token0].volume + Abs(SwapAmounts[1])
              /\ store'.tokens[pool.token1].volume
                    = store.tokens[pool.token1].volume + Abs(SwapAmounts[2])
              /\ store'.pools[a].volumeUSD = plus(pool.volumeUSD, TrackedVolumeUSD)
              /\ store'.pools[a].feesUSD = plus(pool.feesUSD, fees)
              /\ \A id \in {pool.token0, pool.token1} :
                    /\ store'.tokens[id].volumeUSD
                          = plus(store.tokens[id].volumeUSD, TrackedVolumeUSD)
                    /\ store'.tokens[id].feesUSD = plus(store.tokens[id].feesUSD, fees)
              /\ store'.factory[FACTORY_ADDRESS].totalVolumeUSD
                    = plus(store.factory[FACTORY_ADDRESS].totalVolumeUSD, TrackedVolumeUSD)
              /\ store'.factory[FACTORY_ADDRESS].totalFeesUSD
                    = plus(store.factory[FACTORY_ADDRESS].totalFeesUSD, fees)]_vars

\* C19: after a Swap is handled on a known pool, the liquidity, tick and
\* sqrtPrice of the stored Pool are the values the event carries, whatever
\* they were before, and Pool.totalValueLockedToken0/1 have changed by the
\* signed decimals-adjusted amount0 and amount1.
C19_SwapOverwritesPoolState ==
    [][Swapping
       => LET a == events[idx][4]
              pool == store.pools[a]
          IN  /\ store'.pools[a].liquidity = fromString(Swapped[6])
              /\ store'.pools[a].tick = <<fromString(Swapped[7])>>
              /\ store'.pools[a].sqrtPrice = fromString(Swapped[5])
              /\ store'.pools[a].totalValueLockedToken0
                    = pool.totalValueLockedToken0 + SwapAmounts[1]
              /\ store'.pools[a].totalValueLockedToken1
                    = pool.totalValueLockedToken1 + SwapAmounts[2]]_vars

\* C20: when a Swap writes, bundle.ethPriceUSD and the derivedETH of both
\* tokens are the ones read from a store that already holds the Pool with the
\* liquidity, tick, sqrtPrice of the event and the token0Price/token1Price
\* recomputed from it; and the ETH and USD value locked that the Swap writes
\* to the Pool, the Factory and the Tokens is computed from these new prices.
C20_SwapPricesAfterPoolSave ==
    [][(Swapping /\ store' # store)
       => LET a == events[idx][4]
              pool == store.pools[a]
              after == store'.pools[a]
              saved == [store EXCEPT !.pools = store'.pools]
              ethPriceUSD == store'.bundle[BundleId].ethPriceUSD
              prices == sqrtPriceX96ToTokenPrices(fromString(Swapped[5]),
                            store.tokens[pool.token0], store.tokens[pool.token1])
          IN  /\ after.token0Price = prices[1] /\ after.token1Price = prices[2]
              /\ ethPriceUSD = getEthPriceInUSD(saved)
              /\ \A id \in {pool.token0, pool.token1} :
                    /\ store'.tokens[id].derivedETH
                          = findEthPerToken(saved, id, store.tokens[id])
                    /\ store'.tokens[id].totalValueLockedUSD
                          = times(toBigDecimal(store'.tokens[id].totalValueLocked),
                                  times(store'.tokens[id].derivedETH, ethPriceUSD))
              /\ after.totalValueLockedETH
                    = plus(times(toBigDecimal(after.totalValueLockedToken0),
                                 store'.tokens[pool.token0].derivedETH),
                           times(toBigDecimal(after.totalValueLockedToken1),
                                 store'.tokens[pool.token1].derivedETH))
              /\ after.totalValueLockedUSD = times(after.totalValueLockedETH, ethPriceUSD)
              /\ store'.factory[FACTORY_ADDRESS].totalValueLockedETH
                    = plus(minus(store.factory[FACTORY_ADDRESS].totalValueLockedETH,
                                 pool.totalValueLockedETH), after.totalValueLockedETH)
              /\ store'.factory[FACTORY_ADDRESS].totalValueLockedUSD
                    = times(store'.factory[FACTORY_ADDRESS].totalValueLockedETH,
                            ethPriceUSD)]_vars

\* The first Swap on pool "1": before it no price was known, after it the
\* price of the reference asset is the new token0Price of the pool, token
\* "b" is priced through the pool and the pool has a value locked in USD.
C20_Witness ==
    /\ calls # <<>>
    /\ calls[Len(calls)][1] = "handleSwap"
    /\ failure = "none"
    /\ LastEvent[4] = ReferencePool
    /\ ReferencePool \in DOMAIN store.pools
    /\ BundleId \in DOMAIN store0.bundle
    /\ store0.bundle[BundleId].ethPriceUSD = ZERO_BD
    /\ store.pools[ReferencePool].token0Price # ZERO_BD
    /\ store.bundle[BundleId].ethPriceUSD = store.pools[ReferencePool].token0Price
    /\ store.tokens[<<98>>].derivedETH # ZERO_BD
    /\ store.pools[ReferencePool].totalValueLockedUSD # ZERO_BD

----------------------------------------------------------------------------
(* The claims about Flash, the positions and the contract reads *)

\* the step that handles a Flash on a pool of the store
Flashing == Case(EventType.FLASH) /\ events[idx][4] \in DOMAIN store.pools

\* C21: a Flash on a known pool changes nothing in the store but the
\* feeGrowthGlobal0X128 and feeGrowthGlobal1X128 of that Pool: its other
\* fields and every Token, Factory, Bundle, Tick, Position, transaction and
\* snapshot record are as before.
C21_FlashOnlyFeeGrowth ==
    [][Flashing
       => store' = [store EXCEPT
                      !.pools[events[idx][4]] =
                          [@ EXCEPT !.feeGrowthGlobal0X128 =
                                        store'.pools[events[idx][4]].feeGrowthGlobal0X128,
                                    !.feeGrowthGlobal1X128 =
                                        store'.pools[events[idx][4]].feeGrowthGlobal1X128]]]_vars

\* A Flash on pool "1" has replaced the fee growth the pool had by what the
\* contract answers.
C21_Witness ==
    /\ calls # <<>>
    /\ calls[Len(calls)][1] = "handleFlash"
    /\ failure = "none"
    /\ LastEvent[4] \in DOMAIN store.pools
    /\ LastEvent[4] \in DOMAIN store0.pools
    /\ store0.pools[LastEvent[4]].feeGrowthGlobal0X128 # feeGrowthGlobal(LastEvent[4])[1]
    /\ store.pools[LastEvent[4]].feeGrowthGlobal0X128 = feeGrowthGlobal(LastEvent[4])[1]
    /\ store.pools[LastEvent[4]].feeGrowthGlobal1X128 = feeGrowthGlobal(LastEvent[4])[2]

\* the token id in the event of the position manager being handled, whose
\* payload decodes
PositionCase ==
    /\ pc = "dispatch"
    /\ \E type \in {EventType.INCREASE_LIQUIDITY, EventType.DECREASE_LIQUIDITY,
                    EventType.COLLECT} :
          events[idx][2] = <<0, 0, 0, type>> /\ Payload("Collect").st = "ok"

TransferringCase == Case(EventType.TRANSFER) /\ Payload("Transfer").st = "ok"

TokenId ==
    IF Case(EventType.TRANSFER) THEN fromString(Payload("Transfer").val[3])
    ELSE fromString(Payload("Collect").val[1])

\* getPosition gives the handler a position: one of the store, or one the
\* position manager answers for
PositionResolved ==
    /\ PositionCase \/ TransferringCase
    /\ getPosition(store, TokenId, TxDetails).position # <<>>

\* the snapshots of a position in a store
SnapshotsOf(s, id) == {k \in DOMAIN s.snapshots : k[1] = id}

\* C22: every IncreaseLiquidity, DecreaseLiquidity, Collect or Transfer whose
\* position is resolved adds one PositionSnapshot, keyed by the position id
\* and the block number, that holds the fields of the position after the
\* event, and leaves every snapshot written before as it was; so the number
\* of snapshots of the position grows by one with every event handled for it.
C22_SnapshotPerEvent ==
    [][PositionResolved
       => LET key == <<TokenId, TxDetails.blockNumber>>
          IN  /\ key \in DOMAIN store'.snapshots
              /\ TokenId \in DOMAIN store'.positions
              /\ store'.snapshots[key] = store'.positions[TokenId]
              /\ \A k \in DOMAIN store.snapshots : store'.snapshots[k] = store.snapshots[k]
              /\ Cardinality(SnapshotsOf(store', TokenId))
                    = Cardinality(SnapshotsOf(store, TokenId)) + 1]_vars

\* C23: for a Position already stored, a Transfer changes only its owner, to
\* the recipient of the event; liquidity, the deposited, withdrawn and
\* collected amounts, pool, tokens, ticks and the fee growth inside are as
\* before.
C23_TransferOnlyOwner ==
    [][(TransferringCase /\ TokenId \in DOMAIN store.positions)
       => /\ TokenId \in DOMAIN store'.positions
          /\ store'.positions[TokenId]
                = [store.positions[TokenId] EXCEPT !.owner = Payload("Transfer").val[2]]]_vars

\* Position 1, with liquidity and fee growth from its IncreaseLiquidity, has
\* passed from the zero address to the recipient of a Transfer.
C23_Witness ==
    /\ calls # <<>>
    /\ calls[Len(calls)][1] = "handleTransfer"
    /\ failure = "none"
    /\ 1 \in DOMAIN store0.positions
    /\ store0.positions[1].owner = <<48>>
    /\ store0.positions[1].liquidity > 0
    /\ store.positions[1].owner = decode("Transfer", LastEvent[3][2]).val[2]
    /\ store.positions[1].owner # store0.positions[1].owner

\* the position the event being handled is about, as the store has it
Stored == store.positions[TokenId]

\* C24: a Collect adds the amount0 of the event, adjusted by the decimals of
\* token0, to collectedFeesToken0 and to collectedFeesToken1 of the Position,
\* whatever the amount1 of the event; and collectedFeesToken0 equals
\* collectedFeesToken1 in every stored Position at all times.
C24_CollectSameAmount ==
    /\ [](\A id \in DOMAIN store.positions :
            store.positions[id].collectedFeesToken0 = store.positions[id].collectedFeesToken1)
    /\ [][(Case(EventType.COLLECT) /\ Payload("Collect").st = "ok"
           /\ TokenId \in DOMAIN store.positions)
          => /\ Stored.token0 \in DOMAIN store.tokens
             /\ LET amount0 == convertTokenToDecimal(fromString(Payload("Collect").val[3]),
                                                     store.tokens[Stored.token0].decimals)
                IN  /\ store'.positions[TokenId].collectedFeesToken0
                          = Stored.collectedFeesToken0 + amount0
                    /\ store'.positions[TokenId].collectedFeesToken1
                          = Stored.collectedFeesToken1 + amount0]_vars

\* the handler of events[idx] makes a contract call that reverts: the fee
\* growth of the pool of a Flash, a tick of the pool of a Mint, the position
\* of an event of the position manager or the pool of that position
RevertingRead ==
    \/ Flashing /\ feeGrowthGlobal(events[idx][4]) = <<>>
    \/ Minting /\ ticks(events[idx][4], fromString(Payload("Mint").val[4])) = <<>>
    \/ /\ PositionCase \/ TransferringCase
       /\ TokenId \notin DOMAIN store.positions
       /\ LET result == positions(TokenId, TxDetails.blockNumber)
          IN  \/ result = <<>>
              \/ getPool(result[1].token0, result[1].token1, result[1].fee) = <<>>

\* C25: a contract read that reverts while an event is handled (ticks,
\* feeGrowthGlobal0X128, feeGrowthGlobal1X128, positions, getPool) does not
\* end the batch: the handler completes and forEach goes on to the next event.
C25_RevertNotFatal ==
    [][RevertingRead => (pc' # "failed" /\ failure' = failure /\ idx' = idx + 1)]_vars

\* updateFeeVars is reached for a stored Position and positions() reverts
RefreshReverts ==
    /\ PositionCase
    /\ TokenId \in DOMAIN store.positions
    /\ TxDetails.blockNumber # TempFixBlock
    /\ Stored.pool # TempFixPool
    /\ Stored.token0 \in DOMAIN store.tokens /\ Stored.token1 \in DOMAIN store.tokens
    /\ positions(TokenId, TxDetails.blockNumber) = <<>>

\* the stored Position with the amounts of the event being handled applied
Applied ==
    LET event == Payload("Collect").val
        amount0 == convertTokenToDecimal(fromString(event[3]),
                                         store.tokens[Stored.token0].decimals)
        amount1 == convertTokenToDecimal(fromString(event[4]),
                                         store.tokens[Stored.token1].decimals)
    IN  IF Case(EventType.INCREASE_LIQUIDITY)
        THEN [Stored EXCEPT !.liquidity = @ + fromString(event[2]),
                            !.depositedToken0 = @ + amount0,
                            !.depositedToken1 = @ + amount1]
        ELSE IF Case(EventType.DECREASE_LIQUIDITY)
        THEN [Stored EXCEPT !.liquidity = @ - fromString(event[2]),
                            !.withdrawnToken0 = @ + amount0,
                            !.withdrawnToken1 = @ + amount1]
        ELSE [Stored EXCEPT !.collectedFeesToken0 = @ + amount0,
                            !.collectedFeesToken1 = @ + amount0]

\* C26: when positions() reverts in the refresh of the fee growth of a stored
\* Position during an IncreaseLiquidity, DecreaseLiquidity or Collect, the
\* amounts of the event are applied and saved all the same,
\* feeGrowthInside0LastX128 and feeGrowthInside1LastX128 keep their values,
\* and the snapshot of the block is written.
C26_RefreshSkippedOnly ==
    [][RefreshReverts
       => /\ pc' # "failed"
          /\ store'.positions = [store.positions EXCEPT ![TokenId] = Applied]
          /\ store'.positions[TokenId].feeGrowthInside0LastX128
                = Stored.feeGrowthInside0LastX128
          /\ store'.positions[TokenId].feeGrowthInside1LastX128
                = Stored.feeGrowthInside1LastX128
          /\ <<TokenId, TxDetails.blockNumber>> \in DOMAIN store'.snapshots
          /\ store'.snapshots[<<TokenId, TxDetails.blockNumber>>] = Applied]_vars

\* Position 1 is burnt in block 3; the IncreaseLiquidity of that block has
\* raised its liquidity and left the fee growth the position manager gave in
\* block 1.
C26_Witness ==
    /\ Len(calls) = 1
    /\ calls[1][1] = "handleIncreaseLiquidity"
    /\ failure = "none"
    /\ txDetailsFromHeader(events[1]).blockNumber = 3
    /\ positions(1, 3) = <<>>
    /\ 1 \in DOMAIN store0.positions /\ 1 \in DOMAIN store.positions
    /\ store.positions[1].liquidity > store0.positions[1].liquidity
    /\ store.positions[1].feeGrowthInside0LastX128 = positions(1, 1)[1].feeGrowthInside0LastX128
    /\ store.positions[1].feeGrowthInside1LastX128 = positions(1, 1)[1].feeGrowthInside1LastX128
    /\ <<1, 3>> \in DOMAIN store.snapshots

-----------------------------------------------------------------------------
(* The claims about the store as a whole *)

\* the pool addresses PoolTemplate.create has been called with
Registered(s) == {s.templates[i] : i \in 1..Len(s.templates)}

\* C27: an address is registered as an event source if and only if a Pool of
\* that id is stored, and no address is registered more than once.
C27_SourcePerPool ==
    /\ Registered(store) = DOMAIN store.pools
    /\ \A i, j \in 1..Len(store.templates) :
          store.templates[i] = store.templates[j] => i = j

\* no pool address has been created twice
CreatedOnce ==
    \A i, j \in 1..Len(store.templates) : store.templates[i] = store.templates[j] => i = j

RECURSIVE SumBD(_, _)
\* the sum of the BigDecimal f[x] over the x of S
SumBD(f, S) ==
    IF S = {} THEN ZERO_BD
    ELSE LET x == CHOOSE y \in S : TRUE IN plus(f[x], SumBD(f, S \ {x}))

RECURSIVE Sum(_, _)
\* the sum of the amounts f[x] over the x of S
Sum(f, S) ==
    IF S = {} THEN 0
    ELSE LET x == CHOOSE y \in S : TRUE IN f[x] + Sum(f, S \ {x})

\* C28: as long as no pool address is created twice,
\* Factory.totalValueLockedETH is the sum of Pool.totalValueLockedETH over the
\* stored pools, after every event handled.
C28_FactoryLockedIsSum ==
    (CreatedOnce /\ FACTORY_ADDRESS \in DOMAIN store.factory)
    => store.factory[FACTORY_ADDRESS].totalValueLockedETH
          = SumBD([p \in DOMAIN store.pools |-> store.pools[p].totalValueLockedETH],
                  DOMAIN store.pools)

\* two pools created once each, and value locked in the factory
C28_Witness ==
    /\ CreatedOnce
    /\ FACTORY_ADDRESS \in DOMAIN store.factory
    /\ Cardinality(DOMAIN store.pools) = 2
    /\ gt(store.factory[FACTORY_ADDRESS].totalValueLockedETH, ZERO_BD)
    /\ pc = "idle"

\* C29: every stored Pool has its token0 and its token1 stored, and with a
\* stored Pool the Factory and the Bundle exist: the loads of Token, Factory
\* and Bundle in the handlers of Initialize, Mint, Burn and Swap find their
\* entity.
C29_PoolsResolved ==
    \A p \in DOMAIN store.pools : Resolved(store, store.pools[p])

\* a Mint handled on a stored pool, after the loads
C29_Witness ==
    /\ calls # <<>>
    /\ calls[Len(calls)][1] = "handleMint"
    /\ failure = "none"
    /\ LastEvent[4] \in DOMAIN store0.pools
    /\ LastEvent[4] \in DOMAIN store.pools
    /\ store.pools[LastEvent[4]].txCount > store0.pools[LastEvent[4]].txCount

\* the pools of a store that have the token as token0, as token1
PoolsOfToken0(s, token) == {p \in DOMAIN s.pools : s.pools[p].token0 = token}

PoolsOfToken1(s, token) == {p \in DOMAIN s.pools : s.pools[p].token1 = token}

Burning ==
    /\ Case(EventType.BURN)
    /\ Payload("Burn").st = "ok"
    /\ events[idx][4] \in DOMAIN store.pools

\* the txCount of the factory, of the pools and of the tokens of a store
TxCounts(s) ==
    [factory |-> [f \in DOMAIN s.factory |-> s.factory[f].txCount],
     pools |-> [p \in DOMAIN s.pools |-> s.pools[p].txCount],
     tokens |-> [k \in DOMAIN s.tokens |-> s.tokens[k].txCount]]

\* Factory.txCount is the sum of Pool.txCount while no pool is created twice
TxCountIsSum ==
    (CreatedOnce /\ FACTORY_ADDRESS \in DOMAIN store.factory)
    => store.factory[FACTORY_ADDRESS].txCount
          = Sum([p \in DOMAIN store.pools |-> store.pools[p].txCount], DOMAIN store.pools)

\* a Mint, Burn or Swap on a known pool counts once in the pool, in its two
\* tokens and in the factory
CountedOnce ==
    (Minting \/ Burning \/ Swapping)
    => LET a == events[idx][4]
           pool == store.pools[a]
       IN  /\ Resolved(store, pool)
           /\ store'.pools[a].txCount = pool.txCount + 1
           /\ \A id \in {pool.token0, pool.token1} :
                 store'.tokens[id].txCount = store.tokens[id].txCount + 1
           /\ store'.factory[FACTORY_ADDRESS].txCount
                 = store.factory[FACTORY_ADDRESS].txCount + 1

\* C31: each Mint, Burn or Swap handled on a known pool adds exactly 1 to the
\* txCount of the Pool, of both its Tokens and of the Factory; Initialize and
\* Flash change no txCount; and while no pool address is created twice,
\* Factory.txCount is the sum of Pool.txCount over the stored pools.
C31_TxCountsConsistent ==
    /\ []TxCountIsSum
    /\ [][CountedOnce]_vars
    /\ [][(Case(EventType.INITIALIZE) \/ Case(EventType.FLASH))
          => TxCounts(store') = TxCounts(store)]_vars

\* the ticks of a pool in the store
TicksOf(pool) == {k \in DOMAIN store.ticks : k[1] = pool}

\* what the i-th handler called in this block adds to the liquidityGross of
\* the tick k: the amount of a Mint, minus the amount of a Burn, that names
\* the tick as a boundary
GrossOf(i, k) ==
    LET event == events[calls[i][2]]
        named(m, lower, upper) == /\ event[4] = k[1]
                                  /\ k[2] \in {fromString(m[lower]), fromString(m[upper])}
    IN  IF calls[i][1] = "handleMint"
        THEN LET m == decode("Mint", event[3][2]).val
             IN  IF named(m, 3, 4) THEN fromString(m[5]) ELSE 0
        ELSE IF calls[i][1] = "handleBurn"
        THEN LET m == decode("Burn", event[3][2]).val
             IN  IF named(m, 2, 3) THEN 0 - fromString(m[4]) ELSE 0
        ELSE 0

C33_PoolCountMatches ==
    CreatedOnce
    => IF FACTORY_ADDRESS \in DOMAIN store.factory
       THEN store.factory[FACTORY_ADDRESS].poolCount = Cardinality(DOMAIN store.pools)
       ELSE store.pools = EmptyMap

\* a block of two PoolCreated: the first stored its pool, the second bailed
\* out on the decimals of one of its tokens
C33_Witness ==
    /\ CreatedOnce
    /\ pc = "idle" /\ failure = "none"
    /\ Len(calls) = 2
    /\ calls[1][1] = "handlePoolCreated" /\ calls[2][1] = "handlePoolCreated"
    /\ LET first == decode("PoolCreated", events[calls[1][2]][3][2]).val
           second == decode("PoolCreated", events[calls[2][2]][3][2]).val
       IN  /\ first[5] \in DOMAIN store.pools /\ first[5] \notin DOMAIN store0.pools
           /\ second[5] \notin DOMAIN store.pools
           /\ \E id \in {second[1], second[2]} :
                 id \notin DOMAIN store.tokens /\ fetchTokenDecimals(id) = <<>>
    /\ store.factory[FACTORY_ADDRESS].poolCount = Cardinality(DOMAIN store.pools)

\* the records of an entity type in a store
RecordsOf(s, type) == {r \in s.records : r[1] = type}

\* the handlers of this block called by name for an event on a stored pool
HandledOnPool(name) ==
    {i \in DOMAIN calls : calls[i][1] = name /\ events[calls[i][2]][4] \in DOMAIN store.pools}

\* C34: distinct Mint events handled on known pools give Mint records of
\* distinct ids, and so do Burn and Swap events, two events of one
\* transaction on two pools included: the number of Mint, Burn and Swap
\* records stored is the number of such events handled.
C34_RecordPerEvent ==
    failure = "none"
    => /\ Cardinality(RecordsOf(store, "Mint"))
            = Cardinality(RecordsOf(store0, "Mint")) + Cardinality(HandledOnPool("handleMint"))
       /\ Cardinality(RecordsOf(store, "Burn"))
            = Cardinality(RecordsOf(store0, "Burn")) + Cardinality(HandledOnPool("handleBurn"))
       /\ Cardinality(RecordsOf(store, "Swap"))
            = Cardinality(RecordsOf(store0, "Swap")) + Cardinality(HandledOnPool("handleSwap"))

\* q is p with entries added at its end
Extends(q, p) == Len(q) >= Len(p) /\ SubSeq(q, 1, Len(p)) = p

\* C35: a PoolCreated leaves every Token already stored as it was, but for
\* whitelistPools, which may grow; and when the Factory is stored it leaves
\* the aggregates of the Factory other than poolCount, and the Bundle, as
\* they were.
C35_PoolCreatedKeepsTokens ==
    [][Creating
       => /\ \A id \in DOMAIN store.tokens :
                /\ id \in DOMAIN store'.tokens
                /\ [store'.tokens[id] EXCEPT !.whitelistPools = store.tokens[id].whitelistPools]
                      = store.tokens[id]
                /\ Extends(store'.tokens[id].whitelistPools, store.tokens[id].whitelistPools)
          /\ FACTORY_ADDRESS \in DOMAIN store.factory
             => /\ [store'.factory[FACTORY_ADDRESS] EXCEPT
                       !.poolCount = store.factory[FACTORY_ADDRESS].poolCount]
                      = store.factory[FACTORY_ADDRESS]
                /\ store'.bundle = store.bundle]_vars

\* The one PoolCreated of a block stored a new pool over two tokens that had
\* transactions counted and an amount locked: they have them still, and the
\* factory has its txCount.
C35_Witness ==
    /\ Len(calls) = 1
    /\ calls[1][1] = "handlePoolCreated"
    /\ failure = "none"
    /\ LET event == decode("PoolCreated", events[calls[1][2]][3][2]).val
       IN  /\ event[5] \in DOMAIN store.pools /\ event[5] \notin DOMAIN store0.pools
           /\ \A id \in {event[1], event[2]} :
                 /\ id \in DOMAIN store0.tokens
                 /\ store0.tokens[id].txCount > 0
                 /\ store0.tokens[id].totalValueLocked > 0
                 /\ store.tokens[id].txCount = store0.tokens[id].txCount
                 /\ store.tokens[id].totalValueLocked = store0.tokens[id].totalValueLocked
           /\ store.factory[FACTORY_ADDRESS].txCount > 0
           /\ store.factory[FACTORY_ADDRESS].poolCount = 2

-----------------------------------------------------------------------------
(* The claims about the decode loop and the sizes *)

\* C36: decoding a byte buffer as any message type ends, with a message or
\* with an error: no iteration of the decode loop leaves the cursor where it
\* was or before, and after a decode that succeeded the cursor is between 0
\* and the length of the buffer.
C36_DecodeTerminates ==
    outcome.kind = "decode" =>
        /\ outcome.st \in {"ok", "error"}
        /\ outcome.st = "ok" => (0 <= outcome.pos /\ outcome.pos <= Len(outcome.bytes))

\* the number of bits of a u64: the place of its highest bit set, 0 for 0
BitLength(v) ==
    IF \A i \in 1..64 : v[i] = 0 THEN 0
    ELSE CHOOSE i \in 1..64 : v[i] = 1 /\ \A j \in (i + 1)..64 : v[j] = 0

\* C37: for every u64 n, the u64 of a negative int32 or int64 included,
\* Sizer.varint64(n) is the number of bytes Encoder.varint64(n) writes: 1 for
\* n < 2^7 and one more for every further 7 bits, 10 from 2^63 on.
C37_SizerMatchesEncoder ==
    outcome.kind = "varint" =>
        /\ outcome.size = Len(outcome.bytes)
        /\ outcome.size = IF BitLength(Unword(probe.n)) = 0 THEN 1
                          ELSE (BitLength(Unword(probe.n)) + 6) \div 7

\* the i32 -(2^31), as the u64 it is converted to: ten bytes sized and written
C37_Witness ==
    /\ outcome.kind = "varint"
    /\ probe.n = Word(U64Neg(31))
    /\ outcome.size = 10
    /\ Len(outcome.bytes) = 10
====
